---- MODULE Spec2Model ----
(***************************************************************************)
(* Verification model of the dataset-build pipeline (src/src/build_dataset *)
(* .py: iterate_snippets, dedupe, split_records, write_jsonl, main) and of *)
(* the review web service's status store (src/tools/web-reviewer).         *)
(*                                                                         *)
(* Text is a sequence of characters.  The characters that matter to the    *)
(* code are the byte-order mark U+FEFF, whitespace, the replacement        *)
(* character U+FFFD that a lenient decode produces, and everything else.   *)
(***************************************************************************)
EXTENDS Integers, Sequences, FiniteSets, Bags, TLC

(***************************************************************************)
(* Bounds of the model.                                                    *)
(***************************************************************************)
MaxFiles == 2        \* directory entries under the input root
MaxText == 3         \* characters in one input file
MaxRecords == 3      \* records handed to dedupe / split_records
MaxCalls == 2        \* successive split_records calls on one list object
RatioDen == 4        \* ratios are the dyadic fractions k / RatioDen
MaxMainFiles == 2    \* directory entries in a whole build run
MaxRequests == 3     \* HTTP requests sent to the review service
MaxPaths == 2        \* paths on the fixer agent's command line
MaxTotal == 50       \* records whose split sizes are computed in binary64
MaxCsvRows == 2      \* rows below the header of a reference CSV
MaxCells == 2        \* cells in one row of a reference CSV
MaxGuiFiles == 2     \* scripts under the GUI validators' target directory
MaxThreads == 2      \* worker threads alive at once in the GUI validators
MaxFixCalls == 2     \* calls of fix_file / preview_fix on one script
MaxClock == 1        \* seconds the clock advances while the fixer is watched
MaxOrgFiles == 3     \* entries of BASE_DIR when organize_files runs
MaxLines == 4        \* lines of a file given to reorder_header
MaxRenFiles == 3     \* Yunit tests in the directory when main runs

(***************************************************************************)
(* Characters.                                                             *)
(***************************************************************************)
BOM == "BOM"         \* U+FEFF
NL == "NL"           \* line feed
SP == "SP"           \* space
REPL == "REPL"       \* U+FFFD, produced by errors="replace"
BAD == "BAD"         \* a byte sequence that is not valid UTF-8

RECURSIVE LStripChars(_, _)
\* str.lstrip(chars): drop leading characters that are in chars.
LStripChars(s, chars) ==
    IF s # <<>> /\ Head(s) \in chars THEN LStripChars(Tail(s), chars) ELSE s

RECURSIVE RStripChars(_, _)
\* str.rstrip(chars): drop trailing characters that are in chars.
RStripChars(s, chars) ==
    IF s # <<>> /\ s[Len(s)] \in chars
    THEN RStripChars(SubSeq(s, 1, Len(s) - 1), chars)
    ELSE s

\* str.strip() / str.rstrip() without argument remove whitespace; U+FEFF and
\* U+FFFD are not whitespace.
Whitespace == {NL, SP}

\* str.strip()
Strip(s) == RStripChars(LStripChars(s, Whitespace), Whitespace)

\* str.rstrip()
RStrip(s) == RStripChars(s, Whitespace)

\* len(s.splitlines()) for a text without a trailing line break.
LineCount(s) ==
    IF s = <<>> THEN 0
    ELSE 1 + Cardinality({i \in 1..Len(s) : s[i] = NL})

(***************************************************************************)
(* Decoding: path.read_text(encoding="utf-8") raises UnicodeDecodeError on *)
(* invalid bytes; with errors="replace" every invalid sequence becomes     *)
(* U+FFFD.  The BOM is kept by the "utf-8" codec.                          *)
(***************************************************************************)
DecodeStrictOk(data) == \A i \in 1..Len(data) : data[i] # BAD

DecodeReplace(data) == [i \in 1..Len(data) |-> IF data[i] = BAD THEN REPL ELSE data[i]]

\* The text the try/except of iterate_snippets ends up with.
ReadText(data) == IF DecodeStrictOk(data) THEN data ELSE DecodeReplace(data)

(***************************************************************************)
(* Directory entries.  An entry's position in fs is its place in sorted    *)
(* path order, and serves as its file stem.                                *)
(***************************************************************************)
RECURSIVE SeqsUpTo(_, _)
\* All sequences over S of length at most n.
SeqsUpTo(S, n) ==
    IF n = 0 THEN {<<>>}
    ELSE LET shorter == SeqsUpTo(S, n - 1)
         IN shorter \cup {Append(s, x) : s \in {t \in shorter : Len(t) = n - 1}, x \in S}

TextAlphabet == {BOM, NL, "a"}

Datas == SeqsUpTo(TextAlphabet, MaxText)

BadDatas == {<<BAD>>, <<"a", BAD>>, <<BOM, BAD>>}

Entry(ext, kind, readable, data) ==
    [ext |-> ext, kind |-> kind, readable |-> readable, data |-> data]

\* Files whose content is explored exhaustively.
RichEntries == {Entry("ahk", "file", TRUE, d) : d \in Datas \cup BadDatas}

\* The other kinds of entry: a plain snippet, an empty file, a file that
\* cannot be read (permission denied, or removed after is_file()), a directory
\* named x.ahk, and files of another extension.
PlainEntries ==
    {Entry("ahk", "file", TRUE, <<"a">>),
     Entry("ahk", "file", TRUE, <<>>),
     Entry("ahk", "file", FALSE, <<"a">>),
     Entry("ahk", "dir", TRUE, <<>>),
     Entry("txt", "file", TRUE, <<"a">>),
     Entry("txt", "file", TRUE, <<>>)}

\* Directories of at most n entries, at most one of them rich.
Directories(n) ==
    LET bases == SeqsUpTo(PlainEntries, n)
        put(b, k, r) == IF k <= Len(b) THEN [b EXCEPT ![k] = r] ELSE b
    IN bases \cup {put(b, k, r) : b \in bases, k \in 1..n, r \in RichEntries}

(***************************************************************************)
(* State.                                                                  *)
(***************************************************************************)
VARIABLES
    fs,          \* the input directory, in sorted path order
    it_state,    \* iterate_snippets generator: created/running/exhausted/raised
    it_paths,    \* sorted(root.rglob("*.ahk")), as positions in fs
    it_pos,      \* next element of it_paths
    yielded,     \* records the generator has yielded so far
    dd_records,  \* dedupe: the caller's record objects
    dd_given,    \* dedupe: the records as they were when dedupe was called
    dd_state,    \* dedupe: ready/returned
    unique,      \* dedupe: the list it returned
    sp_records,  \* split_records: the caller's list object
    sp_given,    \* split_records: the list as it was before the first call
    val_num,     \* val_ratio = val_num / RatioDen
    test_num,    \* test_ratio = test_num / RatioDen
    seed,        \* the seed argument
    mt,          \* what random.Random(seed) draws: mt[i] = randbelow(i + 1)
    runs,        \* the outcomes of the split_records calls made so far
    pc,          \* main: where the build run is
    exc,         \* main: the exception that ended the run, or "none"
    dry_run,     \* main: args.dry_run
    main_records, \* main: the collected records
    unique_records, \* main: the records after dedupe
    splits,      \* main: train, val and test
    out,         \* the output directory: whether it exists, and its files
    out_before,  \* the output directory as the run found it
    svc,         \* ScriptService: statuses and qualities in memory
    status_file, \* the JSON status file on disk
    linting,     \* lint requests waiting for the linter, one script dict each
    sent,        \* number of requests received so far
    last_set,    \* per script, the status of the last set-status processed
    last_lint,   \* per script, the quality of the last lint completed
    last_code,   \* HTTP status of the response sent last
    overlapped,  \* a status was set while a lint request was waiting
    last_req,    \* the request received last: its endpoint and status field
    disk,        \* agent: the script files, path to content
    backup_files, \* agent: the files in backup_dir, name to content
    ag_pc,       \* agent: where process_batch is
    ag_dry_run,  \* agent: self.dry_run
    ag_backup,   \* agent: self.backup
    all_files,   \* agent: the files process_batch collected
    ag_pos,      \* agent: next element of all_files
    apply_fixes, \* agent: the apply_fixes argument
    report,      \* agent: the BatchReport counters
    pre_edit,    \* per script, its content when apply_fix last began to write
    n_total,     \* sizes: len(records)
    val_pct,     \* sizes: val_ratio as written, in hundredths
    test_pct,    \* sizes: test_ratio as written, in hundredths
    sizes,       \* sizes: the lengths split_records returned, once it has
    csv_file,    \* reference CSV: whether it exists, its header, its rows
    ref_state,   \* iterate_reference_elements: created/running/exhausted/raised
    ref_pos,     \* next row of the reader
    ref_yielded, \* records the generator has yielded so far
    ref_from,    \* for each yielded record, the row it was made from
    hm_prompt,   \* to_harmony: the prompt argument
    hm_response, \* to_harmony: the response argument
    hm_result,   \* to_harmony: what it returned, once it has
    gui_env,     \* GUI validator: the toolkit, whether AHK_EXE exists, the scripts
    window,      \* GUI validator: the window object's flags and buttons
    threads,     \* GUI validator: the worker threads, the last started last
    log_file,    \* GUI validator: the results last saved to LOG_FILE
    fx_file,     \* fixer: the script's content
    fx_backups,  \* fixer: the script's backup files, by the second in their name
    fx_now,      \* fixer: the clock, in seconds
    fx_calls,    \* fixer: the calls of fix_file and preview_fix so far
    org_base,    \* organize: the files in BASE_DIR, name to content
    org_folders, \* organize: what is at each target folder's path
    org_dry_run, \* organize: the dry_run argument
    org_pc,      \* organize: where organize_files is
    org_todo,    \* organize: the sorted files not yet dealt with
    org_stats,   \* organize: the statistics gathered
    org_before,  \* organize: BASE_DIR and the folders as the run found them
    rh_lines,    \* reorder_header: the lines given
    rh_result,   \* reorder_header: what it returned, once it has
    rn_dir,      \* renames: the files in YUNIT_DIR, name to content
    rn_pc,       \* renames: where the run is
    rn_plans,    \* renames: the plan
    rn_pos,      \* renames: next entry of the plan
    rn_renamed   \* renames: how many files perform_renames has renamed

snippetVars == <<fs, it_state, it_paths, it_pos, yielded>>

dedupeVars == <<dd_records, dd_given, dd_state, unique>>

splitVars == <<sp_records, sp_given, val_num, test_num, seed, mt, runs>>

mainVars == <<pc, exc, dry_run, main_records, unique_records, splits, out, out_before>>

webVars ==
    <<svc, status_file, linting, sent, last_set, last_lint, last_code, overlapped,
      last_req>>

coreVars == <<snippetVars, dedupeVars, splitVars, mainVars, webVars>>

agentVars ==
    <<disk, backup_files, ag_pc, ag_dry_run, ag_backup, all_files, ag_pos,
      apply_fixes, report, pre_edit>>

sizesVars == <<n_total, val_pct, test_pct, sizes>>

csvVars == <<csv_file, ref_state, ref_pos, ref_yielded, ref_from>>

harmonyVars == <<hm_prompt, hm_response, hm_result>>

guiVars == <<gui_env, window, threads, log_file>>

extVars == <<agentVars, sizesVars, csvVars, harmonyVars, guiVars>>

fixVars == <<fx_file, fx_backups, fx_now, fx_calls>>

orgVars ==
    <<org_base, org_folders, org_dry_run, org_pc, org_todo, org_stats, org_before>>

hdrVars == <<rh_lines, rh_result>>

renVars == <<rn_dir, rn_pc, rn_plans, rn_pos, rn_renamed>>

moreVars == <<fixVars, orgVars, hdrVars, renVars>>

vars == <<coreVars, extVars, moreVars>>

(***************************************************************************)
(* iterate_snippets                                                        *)
(***************************************************************************)
SnippetRecord(prompt, response, metadata) ==
    [prompt |-> prompt, response |-> response, metadata |-> metadata]

\* root.rglob("*.ahk"), sorted: the positions of the entries named *.ahk.
RECURSIVE RglobFrom(_, _)
RglobFrom(dir, i) ==
    IF i > Len(dir) THEN <<>>
    ELSE IF dir[i].ext = "ahk" THEN <<i>> \o RglobFrom(dir, i + 1)
    ELSE RglobFrom(dir, i + 1)

Rglob(dir) == RglobFrom(dir, 1)

\* build_prompt(category, title, source_path); every file is directly under
\* the root, so its category is the empty parent name.
build_prompt(category, title, source_path) ==
    <<"You are maintaining a knowledge base of AutoHotkey examples.",
      <<"Category", category>>,
      <<"Example ID", title>>,
      <<"Source Path", source_path>>,
      "Return the exact AutoHotkey snippet associated with this reference.">>

\* A collector that strips whitespace only.
SnippetTextKeepBom(raw_text) == Strip(raw_text)

\* raw_text.lstrip("U+FEFF") followed by .strip()
SnippetText(raw_text) == Strip(LStripChars(raw_text, {BOM}))

ResponseOfUnterminated(snippet) == RStrip(snippet)

\* snippet.rstrip() + "\n"
ResponseOf(snippet) == Append(RStrip(snippet), NL)

\* One iteration of the for loop on entry e at position i: what it does
\* ("skip" = continue, "raise" = an exception leaves the generator,
\* "yield") and the record it yields.
LoopBody(i, e) ==
    IF e.kind # "file" THEN [outcome |-> "skip"]
    ELSE IF ~e.readable THEN [outcome |-> "raise"]
    ELSE LET raw_text == ReadText(e.data)
             snippet == SnippetText(raw_text)
         IN IF snippet = <<>> THEN [outcome |-> "skip"]
            ELSE [outcome |-> "yield",
                  record |-> SnippetRecord(
                      build_prompt("", i, <<i, e.ext>>),
                      ResponseOf(snippet),
                      [source_path |-> <<i, e.ext>>,
                       category |-> "",
                       filename |-> <<i, e.ext>>,
                       line_count |-> LineCount(snippet),
                       record_type |-> "snippet"])]

\* First next(): the sorted list of matches is built.
IterStart ==
    /\ it_state = "created"
    /\ it_paths' = Rglob(fs)
    /\ it_pos' = 1
    /\ it_state' = "running"
    /\ UNCHANGED <<fs, yielded, dedupeVars, splitVars, mainVars, webVars, extVars, moreVars>>

\* One pass through the loop body.
IterFile ==
    /\ it_state = "running"
    /\ it_pos <= Len(it_paths)
    /\ LET i == it_paths[it_pos]
           step == LoopBody(i, fs[i])
       IN /\ it_state' = IF step.outcome = "raise" THEN "raised" ELSE "running"
          /\ it_pos' = IF step.outcome = "raise" THEN it_pos ELSE it_pos + 1
          /\ yielded' = IF step.outcome = "yield"
                        THEN Append(yielded, step.record)
                        ELSE yielded
    /\ UNCHANGED <<fs, it_paths, dedupeVars, splitVars, mainVars, webVars, extVars, moreVars>>

\* The loop runs off the end of the list.
IterEnd ==
    /\ it_state = "running"
    /\ it_pos > Len(it_paths)
    /\ it_state' = "exhausted"
    /\ UNCHANGED <<fs, it_paths, it_pos, yielded, dedupeVars, splitVars, mainVars, webVars, extVars, moreVars>>

(***************************************************************************)
(* dedupe                                                                  *)
(***************************************************************************)
\* hashlib.sha256(response.encode("utf-8")).hexdigest(): a digest value,
\* different for different responses.
Sha256(response) == <<"sha256", response>>

\* An enrichment that keeps only the digest.
EnrichDigestOnly(rec, digest) ==
    SnippetRecord(rec.prompt, rec.response, "sha256" :> digest)

\* SnippetRecord(prompt=rec.prompt, response=rec.response,
\*               metadata={**rec.metadata, "sha256": digest})
Enrich(rec, digest) ==
    SnippetRecord(rec.prompt, rec.response, ("sha256" :> digest) @@ rec.metadata)

\* The for loop of dedupe from record i on.
RECURSIVE DedupeFrom(_, _, _, _)
DedupeFrom(records, i, uniq, seen) ==
    IF i > Len(records) THEN uniq
    ELSE LET rec == records[i]
             digest == Sha256(rec.response)
         IN IF digest \in seen
            THEN DedupeFrom(records, i + 1, uniq, seen)
            ELSE DedupeFrom(records, i + 1, Append(uniq, Enrich(rec, digest)),
                            seen \cup {digest})

\* A dedupe that never records what it has seen.
RECURSIVE DedupeForgetful(_, _, _, _)
DedupeForgetful(records, i, uniq, seen) ==
    IF i > Len(records) THEN uniq
    ELSE LET rec == records[i]
             digest == Sha256(rec.response)
         IN IF digest \in seen
            THEN DedupeForgetful(records, i + 1, uniq, seen)
            ELSE DedupeForgetful(records, i + 1, Append(uniq, Enrich(rec, digest)), seen)

dedupe_forgetful(records) == DedupeForgetful(records, 1, <<>>, {})

dedupe(records) == DedupeFrom(records, 1, <<>>, {})

\* A call of dedupe on the caller's records; the records themselves are only
\* read.
DedupeCall ==
    /\ dd_state = "ready"
    /\ unique' = dedupe(dd_records)
    /\ dd_state' = "returned"
    /\ UNCHANGED <<dd_records, dd_given, snippetVars, splitVars, mainVars, webVars, extVars, moreVars>>

(***************************************************************************)
(* split_records                                                           *)
(***************************************************************************)
\* seq[lo:hi] with Python's rules: negative indices count from the end and
\* both ends are clamped.
PySlice(seq, lo, hi) ==
    LET n == Len(seq)
        clamp(k) == IF k < 0 THEN (IF n + k < 0 THEN 0 ELSE n + k)
                    ELSE IF k > n THEN n ELSE k
        a == clamp(lo)
        b == clamp(hi)
    IN IF a >= b THEN <<>> ELSE SubSeq(seq, a + 1, b)

\* A swap that loses x[i].
SwapOverwrite(x, i, j) == [x EXCEPT ![i + 1] = x[j + 1]]

\* x[i], x[j] = x[j], x[i]   (0-based i, j)
Swap(x, i, j) == [x EXCEPT ![i + 1] = x[j + 1], ![j + 1] = x[i + 1]]

\* random.Random(seed).shuffle(x): for i in reversed(range(1, len(x))):
\* j = randbelow(i + 1); swap.  draws[i] is the j drawn at step i.
RECURSIVE ShuffleFrom(_, _, _)
ShuffleFrom(x, i, draws) ==
    IF i < 1 THEN x
    ELSE ShuffleFrom(Swap(x, i, draws[i]), i - 1, draws)

Shuffle(x, draws) == ShuffleFrom(x, Len(x) - 1, draws)

\* The draws a generator can make while shuffling up to n elements.
ShuffleDraws(n) == {f \in [1..(n - 1) -> 0..(n - 1)] : \A i \in 1..(n - 1) : f[i] <= i}

\* int(total * ratio) for the ratio num / RatioDen, ratio >= 0.
Count(total, num) == (total * num) \div RatioDen

\* Range checks without the check of the sum.
RatiosValidNoSum(vn, tn) ==
    /\ 0 <= vn /\ vn < RatioDen
    /\ 0 <= tn /\ tn < RatioDen

\* The three range checks at the head of split_records.
RatiosValid(vn, tn) ==
    /\ 0 <= vn /\ vn < RatioDen
    /\ 0 <= tn /\ tn < RatioDen
    /\ ~(vn + tn >= RatioDen)

\* A shuffle applied to the caller's list itself.
CallerListAliased(records, shuffled) == shuffled

\* records = list(records): the shuffle works on a copy, the caller's list
\* keeps its order.
CallerList(records, shuffled) == records

\* A test slice counted from the end of the list.
TestSliceFromEnd(shuffled, train_count, val_count) ==
    PySlice(shuffled, -(Len(shuffled) - train_count - val_count), Len(shuffled))

\* test = records[train_count + val_count :]
TestSlice(shuffled, train_count, val_count) ==
    PySlice(shuffled, train_count + val_count, Len(shuffled))

\* The outcome of split_records(records, val_ratio, test_ratio, seed) and
\* the content of the caller's list afterwards.
split_records(records, vn, tn, draws) ==
    IF ~RatiosValid(vn, tn)
    THEN [raised |-> TRUE, train |-> <<>>, val |-> <<>>, test |-> <<>>,
          records |-> records]
    ELSE LET shuffled == Shuffle(records, draws)
             total == Len(shuffled)
             val_count == Count(total, vn)
             test_count == Count(total, tn)
             train_count == total - val_count - test_count
         IN [raised |-> FALSE,
             train |-> PySlice(shuffled, 0, train_count),
             val |-> PySlice(shuffled, train_count, train_count + val_count),
             test |-> TestSlice(shuffled, train_count, val_count),
             records |-> CallerList(records, shuffled)]

\* What the caller sees of a call.
Outcome(r) == [raised |-> r.raised, train |-> r.train, val |-> r.val, test |-> r.test]

\* One more call with the same arguments on the same list object.
SplitCall ==
    /\ Len(runs) < MaxCalls
    /\ LET r == split_records(sp_records, val_num, test_num, mt)
       IN /\ runs' = Append(runs, Outcome(r))
          /\ sp_records' = r.records
    /\ UNCHANGED <<sp_given, val_num, test_num, seed, mt, snippetVars, dedupeVars, mainVars, webVars, extVars, moreVars>>

(***************************************************************************)
(* main                                                                    *)
(***************************************************************************)
\* list(iterate_snippets(root)): the loop run to its end, or to the first
\* exception.
RECURSIVE IterateFrom(_, _, _, _)
IterateFrom(dir, paths, k, acc) ==
    IF k > Len(paths) THEN [raised |-> FALSE, records |-> acc]
    ELSE LET step == LoopBody(paths[k], dir[paths[k]])
         IN IF step.outcome = "raise" THEN [raised |-> TRUE, records |-> acc]
            ELSE IF step.outcome = "yield"
            THEN IterateFrom(dir, paths, k + 1, Append(acc, step.record))
            ELSE IterateFrom(dir, paths, k + 1, acc)

iterate_snippets(dir) == IterateFrom(dir, Rglob(dir), 1, <<>>)

OutFiles == {"train", "val", "test"}

\* write_jsonl(path, records): the directory is made if missing and the
\* file is replaced by one row per record.
write_jsonl(dir, name, recs) ==
    [exists |-> TRUE,
     files |-> [dir.files EXCEPT ![name] =
                  [k \in 1..Len(recs) |->
                     [prompt |-> recs[k].prompt, response |-> recs[k].response,
                      metadata |-> recs[k].metadata]]]]

\* records = list(iterate_snippets(args.input_dir)); no --elements-csv is
\* given, so the loop over the CSV files adds nothing.
MainCollect ==
    /\ pc = "start"
    /\ LET r == iterate_snippets(fs)
       IN IF r.raised
          THEN /\ pc' = "raised" /\ exc' = "OSError" /\ UNCHANGED main_records
          ELSE /\ pc' = "collected" /\ main_records' = r.records /\ UNCHANGED exc
    /\ UNCHANGED <<dry_run, unique_records, splits, out, out_before>>
    /\ UNCHANGED <<snippetVars, dedupeVars, splitVars, webVars, extVars, moreVars>>

\* unique_records = dedupe(main_records)
MainDedupe ==
    /\ pc = "collected"
    /\ unique_records' = dedupe(main_records)
    /\ pc' = "deduped"
    /\ UNCHANGED <<exc, dry_run, main_records, splits, out, out_before>>
    /\ UNCHANGED <<snippetVars, dedupeVars, splitVars, webVars, extVars, moreVars>>

\* train, val, test = split_records(unique_records, ...)
MainSplit ==
    /\ pc = "deduped"
    /\ LET r == split_records(unique_records, val_num, test_num, mt)
       IN IF r.raised
          THEN /\ pc' = "raised" /\ exc' = "ValueError" /\ UNCHANGED splits
          ELSE /\ pc' = "split"
               /\ splits' = [train |-> r.train, val |-> r.val, test |-> r.test]
               /\ UNCHANGED exc
    /\ UNCHANGED <<dry_run, main_records, unique_records, out, out_before>>
    /\ UNCHANGED <<snippetVars, dedupeVars, splitVars, webVars, extVars, moreVars>>

\* if args.dry_run: return
MainDryRunReturn ==
    /\ pc = "split"
    /\ dry_run
    /\ pc' = "done"
    /\ UNCHANGED <<exc, dry_run, main_records, unique_records, splits, out, out_before>>
    /\ UNCHANGED <<snippetVars, dedupeVars, splitVars, webVars, extVars, moreVars>>

MainWriteTrainAlways ==
    /\ pc = "split"
    /\ out' = write_jsonl(out, "train", splits.train)
    /\ pc' = "wrote_train"
    /\ UNCHANGED <<exc, dry_run, main_records, unique_records, splits, out_before>>
    /\ UNCHANGED <<snippetVars, dedupeVars, splitVars, webVars, extVars, moreVars>>

\* write_jsonl(output_dir / args.train_file, train)
MainWriteTrain ==
    /\ pc = "split"
    /\ ~dry_run
    /\ out' = write_jsonl(out, "train", splits.train)
    /\ pc' = "wrote_train"
    /\ UNCHANGED <<exc, dry_run, main_records, unique_records, splits, out_before>>
    /\ UNCHANGED <<snippetVars, dedupeVars, splitVars, webVars, extVars, moreVars>>

\* write_jsonl(output_dir / args.val_file, val)
MainWriteVal ==
    /\ pc = "wrote_train"
    /\ out' = write_jsonl(out, "val", splits.val)
    /\ pc' = "wrote_val"
    /\ UNCHANGED <<exc, dry_run, main_records, unique_records, splits, out_before>>
    /\ UNCHANGED <<snippetVars, dedupeVars, splitVars, webVars, extVars, moreVars>>

\* write_jsonl(output_dir / args.test_file, test)
MainWriteTest ==
    /\ pc = "wrote_val"
    /\ out' = write_jsonl(out, "test", splits.test)
    /\ pc' = "done"
    /\ UNCHANGED <<exc, dry_run, main_records, unique_records, splits, out_before>>
    /\ UNCHANGED <<snippetVars, dedupeVars, splitVars, webVars, extVars, moreVars>>

(***************************************************************************)
(* The review web service.  Its handlers are coroutines on one event loop: *)
(* a handler runs without interruption except where it awaits, and the     *)
(* only await is the one on the linter subprocess in lint_script.          *)
(***************************************************************************)
\* Scripts found under the scripts directory when the service started.
Scripts == {"s1.ahk", "s2.ahk"}

\* Script ids a request can name: the scripts, and an id that is none.
ScriptIds == Scripts \cup {"gone.ahk"}

valid_statuses_unchecked ==
    {"approved", "needs_fix", "rejected", "reviewed_ok", "skip", "bogus"}

valid_statuses == {"approved", "needs_fix", "rejected", "reviewed_ok", "skip"}

\* A dict without the key is "absent" at that key.
NoStatuses == [id \in ScriptIds |-> "absent"]

NoQuality == [quality |-> "absent", errors |-> 0, warnings |-> 0]

NoQualities == [id \in ScriptIds |-> NoQuality]

\* The status file: missing, not readable as JSON, or holding two mappings.
StatusFile(state, statuses, qualities) ==
    [state |-> state, statuses |-> statuses, qualities |-> qualities]

\* _load_statuses: the file's two mappings, or nothing when the file is
\* missing or unreadable as JSON.
_load_statuses(file) ==
    IF file.state \in {"missing", "corrupt"}
    THEN [statuses |-> NoStatuses, qualities |-> NoQualities]
    ELSE [statuses |-> file.statuses, qualities |-> file.qualities]

\* _save_statuses: the whole file is replaced by what is in memory.
_save_statuses(service) ==
    StatusFile("json", service.statuses, service.qualities)

\* get_script: the script's entry with its status and quality, or None
\* (found = FALSE).
get_script(service, script_id) ==
    IF script_id \notin Scripts
    THEN [found |-> FALSE, id |-> script_id, status |-> "pending", quality |-> "unknown"]
    ELSE [found |-> TRUE,
          id |-> script_id,
          status |-> IF service.statuses[script_id] = "absent" THEN "pending"
                     ELSE service.statuses[script_id],
          quality |-> IF service.qualities[script_id] = NoQuality THEN "unknown"
                      ELSE service.qualities[script_id].quality]

\* The quality update_quality derives from a lint result.
QualityOf(lint_result) ==
    [quality |-> IF lint_result.errors > 0 THEN "error"
                 ELSE IF lint_result.warnings > 0 THEN "warning"
                 ELSE "good",
     errors |-> lint_result.errors,
     warnings |-> lint_result.warnings]

\* An update_quality that changes memory only.
update_quality_unsaved(service, file, script_id, lint_result) ==
    [service |-> [service EXCEPT !.qualities[script_id] = QualityOf(lint_result)],
     file |-> file]

\* ScriptService.set_status: memory, then the file.
set_status(service, file, script_id, status) ==
    LET after == [service EXCEPT !.statuses[script_id] = status]
    IN [service |-> after, file |-> _save_statuses(after)]

\* ScriptService.update_quality: memory, then the file.
update_quality(service, file, script_id, lint_result) ==
    LET after == [service EXCEPT !.qualities[script_id] = QualityOf(lint_result)]
    IN [service |-> after, file |-> _save_statuses(after)]

\* Results the linter can come back with.
LintResults ==
    {[errors |-> 0, warnings |-> 0], [errors |-> 1, warnings |-> 0],
     [errors |-> 0, warnings |-> 1]}

\* Statuses a client sends: two of the valid ones and one that is not.
SentStatuses == {"approved", "needs_fix", "bogus"}

\* POST /api/script-status/{id}: the whole handler.
SetReviewStatus ==
    /\ sent < MaxRequests
    /\ \E script_id \in ScriptIds, status \in SentStatuses :
          /\ last_req' = [endpoint |-> "script-status", status |-> status]
          /\ IF status \notin valid_statuses
             THEN /\ last_code' = 400
                  /\ UNCHANGED <<svc, status_file, last_set, overlapped>>
                ELSE LET r == set_status(svc, status_file, script_id, status)
                  IN /\ svc' = r.service
                     /\ status_file' = r.file
                     /\ last_set' = [last_set EXCEPT ![script_id] = status]
                     /\ overlapped' = (overlapped \/ linting # EmptyBag)
                     /\ last_code' = 200
    /\ sent' = sent + 1
    /\ UNCHANGED <<linting, last_lint>>
    /\ UNCHANGED <<snippetVars, dedupeVars, splitVars, mainVars, extVars, moreVars>>

\* POST /api/script-lint/{id}, up to the await on the linter.
LintScriptBegin ==
    /\ sent < MaxRequests
    /\ \E script_id \in ScriptIds :
          LET script == get_script(svc, script_id)
          IN IF ~script.found
             THEN /\ last_code' = 404
                  /\ UNCHANGED linting
             ELSE /\ linting' = linting (+) SetToBag({script})
                  /\ UNCHANGED last_code
    /\ sent' = sent + 1
    /\ last_req' = [endpoint |-> "script-lint", status |-> "none"]
    /\ UNCHANGED <<svc, status_file, last_set, last_lint, overlapped>>
    /\ UNCHANGED <<snippetVars, dedupeVars, splitVars, mainVars, extVars, moreVars>>

\* POST /api/script-lint/{id}, resumed with the linter's result.
LintScriptEnd ==
    /\ \E script \in BagToSet(linting), result \in LintResults :
          LET r == update_quality(svc, status_file, script.id, result)
          IN /\ svc' = r.service
             /\ status_file' = r.file
             /\ last_lint' = [last_lint EXCEPT ![script.id] = QualityOf(result).quality]
             /\ linting' = linting (-) SetToBag({script})
    /\ last_code' = 200
    /\ UNCHANGED <<sent, last_set, overlapped, last_req>>
    /\ UNCHANGED <<snippetVars, dedupeVars, splitVars, mainVars, extVars, moreVars>>

(***************************************************************************)
(* The fixer agent (src/tools/agent-harness/agent.py).  A path is the      *)
(* sequence of its components, a file's name being its last two: stem and  *)
(* suffix.  The agent is one thread; a loop iteration of process_batch is  *)
(* one step.                                                               *)
(***************************************************************************)
\* The project root and its two directories.
AgentDirs == {<<>>, <<"x">>, <<"y">>}

\* The scripts on disk when the agent starts: two files of the same name in
\* two directories, and a file that is no script.
AgentTree ==
    (<<"x", "a", "ahk">> :> "x_a") @@ (<<"y", "a", "ahk">> :> "y_a")
        @@ (<<"x", "notes", "txt">> :> "n")

\* What the command line may name.
PathArgs ==
    AgentDirs \cup {<<"x", "a", "ahk">>, <<"x", "notes", "txt">>, <<"x", "gone", "ahk">>}

\* Path.name and Path.suffix.
PathName(p) == SubSeq(p, Len(p) - 1, Len(p))

PathSuffix(p) == IF p \in AgentDirs THEN "" ELSE p[Len(p)]

\* path.glob("**/*.ahk") or path.glob("*.ahk"), as a set.
Glob(tree, dir, recursive) ==
    LET parent(p) == SubSeq(p, 1, Len(p) - 2)
        under(p) == Len(dir) <= Len(parent(p)) /\ SubSeq(p, 1, Len(dir)) = dir
    IN {p \in DOMAIN tree :
           /\ PathSuffix(p) = "ahk"
           /\ IF recursive THEN under(p) ELSE parent(p) = dir}

RECURSIVE CollectFiles(_, _, _)
\* process_batch, "Collect all .ahk files": every list all_files can be, a
\* directory scan delivering its paths in any order.
CollectFiles(tree, paths, recursive) ==
    IF paths = <<>> THEN {<<>>}
    ELSE LET path == Head(paths)
             Orderings(S) ==
                 {s \in SeqsUpTo(S, Cardinality(S)) :
                     /\ Len(s) = Cardinality(S)
                     /\ \A i, j \in 1..Len(s) : i # j => s[i] # s[j]}
             found == IF path \in AgentDirs THEN Orderings(Glob(tree, path, recursive))
                      ELSE IF PathSuffix(path) = "ahk" THEN {<<path>>}
                      ELSE {<<>>}
         IN {a \o b : a \in found, b \in CollectFiles(tree, Tail(paths), recursive)}

\* What the model service answers: there is no client, the call or the
\* parsing fails, or a JSON reply carries fixed_script (possibly empty).
AiReplies ==
    {[kind |-> "no_client", fixed_script |-> ""],
     [kind |-> "error", fixed_script |-> ""],
     [kind |-> "json", fixed_script |-> ""],
     [kind |-> "json", fixed_script |-> "fixed"]}

\* total_issues is what the quick validation and the linter find in the
\* content; reply is the model service's answer.
analyze_script(tree, file_path, total_issues, reply) ==
    LET ScriptAnalysis(original_content, status) ==
            [file_path |-> file_path, original_content |-> original_content,
             fixed_content |-> "", status |-> status]
        _get_ai_fix(analysis) ==
            CASE reply.kind = "no_client" -> analysis
              [] reply.kind = "error" -> [analysis EXCEPT !.status = "failed"]
              [] OTHER ->
                    [analysis EXCEPT
                        !.fixed_content = reply.fixed_script,
                        !.status = IF reply.fixed_script # "" THEN "fixed"
                                   ELSE "analyzed"]
    IN IF file_path \notin DOMAIN tree THEN ScriptAnalysis("", "failed")
       ELSE IF total_issues = 0 THEN ScriptAnalysis(tree[file_path], "skipped")
       ELSE _get_ai_fix(ScriptAnalysis(tree[file_path], "analyzed"))

\* io says which write, if any, raises; tried says that the writes were begun.
apply_fix_despite_dry_run(analysis, dry, bak, io, tree, bfiles) ==
    LET same == [ok |-> FALSE, tried |-> FALSE, tree |-> tree, bfiles |-> bfiles]
    IN IF analysis.status # "fixed" \/ analysis.fixed_content = "" THEN same
       ELSE IF bak /\ io = "backup_fails" THEN same
       ELSE LET kept == IF bak
                        THEN (PathName(analysis.file_path) :> analysis.original_content)
                                 @@ bfiles
                        ELSE bfiles
            IN IF io = "write_fails" THEN [same EXCEPT !.tried = TRUE, !.bfiles = kept]
               ELSE [ok |-> TRUE, tried |-> TRUE,
                     tree |-> (analysis.file_path :> analysis.fixed_content) @@ tree,
                     bfiles |-> kept]

apply_fix(analysis, dry, bak, io, tree, bfiles) ==
    LET same == [ok |-> FALSE, tried |-> FALSE, tree |-> tree, bfiles |-> bfiles]
    IN IF analysis.status # "fixed" \/ analysis.fixed_content = "" THEN same
       ELSE IF dry THEN [same EXCEPT !.ok = TRUE]
       ELSE IF bak /\ io = "backup_fails" THEN same
       ELSE LET kept == IF bak
                        THEN (PathName(analysis.file_path) :> analysis.original_content)
                                 @@ bfiles
                        ELSE bfiles
            IN IF io = "write_fails" THEN [same EXCEPT !.tried = TRUE, !.bfiles = kept]
               ELSE [ok |-> TRUE, tried |-> TRUE,
                     tree |-> (analysis.file_path :> analysis.fixed_content) @@ tree,
                     bfiles |-> kept]

\* process_batch up to the loop.
ProcessBatchCollect ==
    /\ ag_pc = "ready"
    /\ \E paths \in SeqsUpTo(PathArgs, MaxPaths), recursive \in BOOLEAN :
          /\ paths # <<>>
          /\ \E files \in CollectFiles(disk, paths, recursive) :
                /\ all_files' = files
                /\ report' = [total_files |-> Len(files), files_analyzed |-> 0,
                              files_fixed |-> 0, files_failed |-> 0,
                              files_skipped |-> 0]
    /\ apply_fixes' \in BOOLEAN
    /\ ag_pos' = 1
    /\ ag_pc' = "loop"
    /\ UNCHANGED <<disk, backup_files, ag_dry_run, ag_backup, pre_edit>>
    /\ UNCHANGED <<coreVars, sizesVars, csvVars, harmonyVars, guiVars, moreVars>>

\* One iteration of the loop over all_files.
ProcessBatchFile ==
    /\ ag_pc = "loop"
    /\ ag_pos <= Len(all_files)
    /\ \E total_issues \in 0..1, reply \in AiReplies,
          io \in {"ok", "backup_fails", "write_fails"} :
          LET file_path == all_files[ag_pos]
              analysis == analyze_script(disk, file_path, total_issues, reply)
              applied == apply_fix(analysis, ag_dry_run, ag_backup, io, disk, backup_files)
              bump(field) == [report EXCEPT ![field] = @ + 1]
          IN CASE analysis.status = "skipped" ->
                    /\ report' = bump("files_skipped")
                    /\ UNCHANGED <<disk, backup_files, pre_edit>>
               [] analysis.status = "failed" ->
                    /\ report' = bump("files_failed")
                    /\ UNCHANGED <<disk, backup_files, pre_edit>>
               [] analysis.status = "fixed" /\ apply_fixes ->
                    /\ report' = IF applied.ok THEN bump("files_fixed")
                                 ELSE bump("files_failed")
                    /\ disk' = applied.tree
                    /\ backup_files' = applied.bfiles
                    /\ pre_edit' = IF applied.tried
                                   THEN (file_path :> disk[file_path]) @@ pre_edit
                                   ELSE pre_edit
               [] OTHER ->
                    /\ report' = bump("files_analyzed")
                    /\ UNCHANGED <<disk, backup_files, pre_edit>>
    /\ ag_pos' = ag_pos + 1
    /\ UNCHANGED <<ag_pc, all_files, apply_fixes, ag_dry_run, ag_backup>>
    /\ UNCHANGED <<coreVars, sizesVars, csvVars, harmonyVars, guiVars, moreVars>>

\* The loop is over: process_batch returns the report.
ProcessBatchReturn ==
    /\ ag_pc = "loop"
    /\ ag_pos > Len(all_files)
    /\ ag_pc' = "done"
    /\ UNCHANGED <<disk, backup_files, all_files, ag_pos, apply_fixes, report,
                   ag_dry_run, ag_backup, pre_edit>>
    /\ UNCHANGED <<coreVars, sizesVars, csvVars, harmonyVars, guiVars, moreVars>>

(***************************************************************************)
(* The sizes of the splits, in the arithmetic the code uses.  The ratios   *)
(* are Python floats (binary64): a ratio written 0.58 is the nearest       *)
(* double, and total * ratio is the exact product rounded to the nearest   *)
(* double, ties to even, before int() truncates it.                        *)
(***************************************************************************)
\* Ratios as written, in hundredths.
Percents == {-10, 0, 10, 25, 29, 58, 60, 100}

\* float("0.<pct>"): the double is M / 2^(53 + s) with 2^52 <= M < 2^53 and
\* M = m2 * 2^36 + m1 * 2^18 + m0.  float.hex gives 0.1 as
\* 0x1.999999999999ap-4, 0.25 as 0x1.0p-2, 0.29 as 0x1.28f5c28f5c28fp-2, 0.58
\* as 0x1.28f5c28f5c28fp-1 and 0.6 as 0x1.3333333333333p-1; 0.0 has M = 0.
Binary64(pct) ==
    CASE pct = 0 -> [s |-> 0, m2 |-> 0, m1 |-> 0, m0 |-> 0]
      [] pct = 10 -> [s |-> 3, m2 |-> 104857, m1 |-> 157286, m0 |-> 104858]
      [] pct = 25 -> [s |-> 1, m2 |-> 65536, m1 |-> 0, m0 |-> 0]
      [] pct = 29 -> [s |-> 1, m2 |-> 76021, m1 |-> 199229, m0 |-> 115343]
      [] pct = 58 -> [s |-> 0, m2 |-> 76021, m1 |-> 199229, m0 |-> 115343]
      [] pct = 60 -> [s |-> 0, m2 |-> 78643, m1 |-> 52428, m0 |-> 209715]

\* int(total * ratio).  With P = total * M in three digits p2, p1, p0 of base
\* 2^18, the exact product is P / 2^(53 + s) and k is its integer part.  The
\* rounded product is k + 1 exactly when P is within half a unit in the last
\* place below (k + 1) * 2^(53 + s), a tie going to k + 1, whose significand
\* is even; otherwise int() gives k.
IntOfProduct(total, ratio) ==
    LET B == 2^18
        c0 == total * ratio.m0
        c1 == total * ratio.m1 + c0 \div B
        p2 == total * ratio.m2 + c1 \div B
        p1 == c1 % B
        p0 == c0 % B
        top == 2^(17 + ratio.s)
        k == p2 \div top
        j == IF k = 0 THEN -1 ELSE CHOOSE e \in 0..12 : 2^e <= k /\ k < 2^(e + 1)
        near == p2 % top = top - 1 /\ p1 = B - 1
    IN IF near /\ 2 * (B - p0) <= 2^(j + ratio.s + 1) THEN k + 1 ELSE k

\* split_records, as far as the lengths of its three lists go.  For ratios of
\* two decimals the comparisons on the doubles agree with those on the
\* hundredths: the sum of two such doubles is at least 1.0 exactly when the
\* hundredths add up to 100 or more.
split_sizes(total, vp, tp) ==
    IF ~(0 <= vp /\ vp < 100) \/ ~(0 <= tp /\ tp < 100) \/ vp + tp >= 100
    THEN [raised |-> TRUE, train |-> 0, val |-> 0, test |-> 0]
    ELSE LET val_count == IntOfProduct(total, Binary64(vp))
             test_count == IntOfProduct(total, Binary64(tp))
             train_count == total - val_count - test_count
             at(i) == IF i < 0 THEN (IF total + i < 0 THEN 0 ELSE total + i)
                      ELSE IF i > total THEN total ELSE i
             len(lo, hi) == IF at(hi) > at(lo) THEN at(hi) - at(lo) ELSE 0
         IN [raised |-> FALSE,
             train |-> len(0, train_count),
             val |-> len(train_count, train_count + val_count),
             test |-> len(train_count + val_count, total)]

\* One call of split_records on a list of n_total records.
SplitSizes ==
    /\ sizes = <<>>
    /\ sizes' = split_sizes(n_total, val_pct, test_pct)
    /\ UNCHANGED <<n_total, val_pct, test_pct>>
    /\ UNCHANGED <<coreVars, agentVars, csvVars, harmonyVars, guiVars, moreVars>>

(***************************************************************************)
(* iterate_reference_elements.  The file is read through csv.DictReader:   *)
(* the first row names the columns, a row with no cell at all is passed    *)
(* over, a short row lacks its last columns (None) and a long one keeps    *)
(* its extra cells under another key.                                      *)
(***************************************************************************)
\* Cells of a row: empty, blank, and text with blanks around it.
CsvCells == {<<>>, <<SP>>, <<SP, "a", SP>>}

\* Headers: the two columns in either order, with a third column, without
\* Description, and with a first column that is not called Name because a
\* second byte-order mark precedes it.
CsvHeaders ==
    {<<"Name", "Description">>, <<"Description", "Name">>,
     <<"Name", "Description", "ElementType">>, <<"Name">>,
     <<"U+FEFF Name", "Description">>}

SkipsRowBothEmpty(name, description) == name = <<>> /\ description = <<>>

\* if not name or not description: continue
SkipsRow(name, description) == name = <<>> \/ description = <<>>

\* The body of the loop over the reader's rows, for the row with the given
\* cells: "skip" = continue, or the record it yields.
ReferenceRow(fieldnames, cells, csv_path) ==
    LET row == [k \in {fieldnames[i] : i \in 1..Len(fieldnames)} |->
                  LET i == CHOOSE i \in 1..Len(fieldnames) : fieldnames[i] = k
                  IN IF i <= Len(cells) THEN [none |-> FALSE, text |-> cells[i]]
                     ELSE [none |-> TRUE, text |-> <<>>]]
        \* (row.get(key) or default)
        get(key, default) ==
            IF key \in DOMAIN row /\ ~row[key].none /\ row[key].text # <<>>
            THEN row[key].text ELSE default
        RECURSIVE join(_)
        join(parts) ==
            IF Len(parts) = 0 THEN <<>>
            ELSE IF Len(parts) = 1 THEN parts[1]
            ELSE parts[1] \o <<NL>> \o join(Tail(parts))
        opt(label, text) == IF text # <<>> THEN <<<<label>> \o text>> ELSE <<>>
        name == Strip(get("Name", <<>>))
        description == Strip(get("Description", <<>>))
        stripped_type == Strip(get("ElementType", <<"Unknown">>))
        element_type == IF stripped_type # <<>> THEN stripped_type ELSE <<"Unknown">>
        source_file == Strip(get("SourceFile", <<>>))
        logical_path == Strip(get("Path", <<>>))
        prompt_lines ==
            << <<"You are maintaining a knowledge base of AutoHotkey reference entries.">>,
               <<"Element Type: ">> \o element_type,
               <<"Element Name: ">> \o name >>
            \o opt("Source File: ", source_file)
            \o opt("Category Path: ", logical_path)
            \o << <<"Provide the official description and any pertinent usage details.">> >>
        response_parts ==
            <<description>>
            \o opt("Signature Type: ", Strip(get("Type", <<>>)))
            \o opt("Return Type: ", Strip(get("ReturnType", <<>>)))
            \o opt("Symbol: ", Strip(get("Symbol", <<>>)))
            \o opt("Parameters: ", Strip(get("Parameters", <<>>)))
    IN IF SkipsRow(name, description) THEN [outcome |-> "skip"]
       ELSE [outcome |-> "yield",
             record |-> SnippetRecord(
                 join(prompt_lines),
                 Append(Strip(join(response_parts)), NL),
                 [record_type |-> "reference",
                  element_type |-> element_type,
                  name |-> name,
                  source_csv |-> csv_path,
                  source_file |-> source_file,
                  category_path |-> logical_path])]

\* First next(): the file is opened, or FileNotFoundError is raised.
RefStart ==
    /\ ref_state = "created"
    /\ ref_state' = IF csv_file.exists THEN "running" ELSE "raised"
    /\ UNCHANGED <<csv_file, ref_pos, ref_yielded, ref_from>>
    /\ UNCHANGED <<coreVars, agentVars, sizesVars, harmonyVars, guiVars, moreVars>>

\* The reader delivers its next row; a row without cells never reaches the
\* loop body.
RefRow ==
    /\ ref_state = "running"
    /\ ref_pos <= Len(csv_file.rows)
    /\ LET cells == csv_file.rows[ref_pos]
           r == ReferenceRow(csv_file.fieldnames, cells, "ref.csv")
       IN IF cells = <<>> \/ r.outcome = "skip"
          THEN UNCHANGED <<ref_yielded, ref_from>>
          ELSE /\ ref_yielded' = Append(ref_yielded, r.record)
               /\ ref_from' = Append(ref_from, ref_pos)
    /\ ref_pos' = ref_pos + 1
    /\ UNCHANGED <<csv_file, ref_state>>
    /\ UNCHANGED <<coreVars, agentVars, sizesVars, harmonyVars, guiVars, moreVars>>

\* The reader is exhausted: the generator returns.
RefEnd ==
    /\ ref_state = "running"
    /\ ref_pos > Len(csv_file.rows)
    /\ ref_state' = "exhausted"
    /\ UNCHANGED <<csv_file, ref_pos, ref_yielded, ref_from>>
    /\ UNCHANGED <<coreVars, agentVars, sizesVars, harmonyVars, guiVars, moreVars>>

(***************************************************************************)
(* to_harmony (src/src/data_prep.py).                                      *)
(***************************************************************************)
to_harmony_unstripped(prompt, response) ==
    [messages |->
        <<[role |-> "system",
           content |-> <<"Reasoning medium. You are a helpful assistant.">>],
          [role |-> "user", content |-> prompt],
          [role |-> "assistant", content |-> response]>>]

to_harmony(prompt, response) ==
    [messages |->
        <<[role |-> "system",
           content |-> <<"Reasoning medium. You are a helpful assistant.">>],
          [role |-> "user", content |-> Strip(prompt)],
          [role |-> "assistant", content |-> Strip(response)]>>]

\* One call of to_harmony.
ToHarmony ==
    /\ hm_result = <<>>
    /\ hm_result' = to_harmony(hm_prompt, hm_response)
    /\ UNCHANGED <<hm_prompt, hm_response>>
    /\ UNCHANGED <<coreVars, agentVars, sizesVars, csvVars, guiVars, moreVars>>

(***************************************************************************)
(* The GUI batch validators (src/tools/validate_gui.py on tkinter,         *)
(* src/tools/validate_gui_qt.py on Qt) and the command-line validator      *)
(* (src/tools/validate_scripts.py, "cli"), which is the same loop with no  *)
(* window, no pause and no stop.  The window's handlers run on the         *)
(* GUI thread, one at a time; a worker thread walks the list of scripts    *)
(* (for "cli" the worker is the main thread, started once).                *)
(* The two threads meet in the stop and pause flags, and a step of the     *)
(* worker is one read of a flag or one file's validation.  The pause loop  *)
(* reads both flags in one pass; a pass is one step, since a flag changed  *)
(* between its two reads is seen by the next pass or by the stop check     *)
(* that follows the loop.                                                  *)
(*                                                                         *)
(* The tkinter buttons are configured by callbacks the worker queues on    *)
(* the event loop, so a click can reach its handler before them: the       *)
(* tkinter handlers can run at any time.  The Qt buttons are set by the    *)
(* handlers themselves, and a disabled button delivers no click.           *)
(* Writing the results file is taken to succeed.                           *)
(***************************************************************************)
SAVE_EVERY == 10

Toolkits == {"tk", "qt", "cli"}

\* What subprocess.run does for one file: it returns a result, or raises
\* TimeoutExpired or something else.  Output is nothing, a blank or text.
RunResults ==
    [exc : {"none"}, returncode : {0, 1}, stdout : {<<>>, <<SP>>, <<"a">>},
     stderr : {<<>>, <<SP>>, <<"a">>}]
    \cup [exc : {"TimeoutExpired", "Exception"}, returncode : {0},
          stdout : {<<>>}, stderr : {<<>>}]

NoRun == [exc |-> "unset", returncode |-> 0, stdout |-> <<>>, stderr |-> <<>>]

\* The counter a file's run adds to.
OutcomeOfRaw(toolkit, r) ==
    IF r.exc = "TimeoutExpired" THEN "failed"
    ELSE IF r.exc # "none" THEN "errors"
    ELSE IF r.returncode = 0 /\ r.stdout = <<>> /\ r.stderr = <<>> THEN "passed"
    ELSE "failed"

OutcomeOf(toolkit, r) ==
    IF r.exc = "TimeoutExpired" THEN "failed"
    ELSE IF r.exc # "none" THEN "errors"
    ELSE LET error_msg == IF Strip(r.stderr) # <<>> THEN Strip(r.stderr)
                          ELSE Strip(r.stdout)
             flagged == IF toolkit = "cli"
                        THEN r.returncode # 0 \/ r.stderr # <<>> \/ r.stdout # <<>>
                        ELSE r.returncode # 0 \/ error_msg # <<>>
         IN IF flagged /\ ~(r.returncode = 0 /\ error_msg = <<>>)
            THEN "failed" ELSE "passed"

NewWorker ==
    [w_pc |-> "started", i |-> 0, has_results |-> FALSE,
     summary |-> [total |-> 0, passed |-> 0, failed |-> 0, errors |-> 0],
     failures |-> 0, w_paused |-> FALSE, w_stopped |-> FALSE,
     begun |-> <<>>, stop_at |-> -1, pause_at |-> -1, last_run |-> NoRun]

is_alive(w) == w.w_pc \notin {"done", "joined"}

stop_is_set(w) ==
    CASE gui_env.toolkit = "tk" -> window.stop_event
      [] gui_env.toolkit = "qt" -> w.w_stopped
      [] OTHER -> FALSE

pause_is_set(w) == IF gui_env.toolkit = "tk" THEN window.paused ELSE w.w_paused

ResultsOf(w) == [exists |-> TRUE, summary |-> w.summary, failures |-> w.failures]

\* The pause loop passes on when a stop is requested or the pause is lifted.
PauseLoopIgnoresStop(stopped, paused) == ~paused

PauseLoopNeverWaits(stopped, paused) == TRUE

PauseLoopExits(stopped, paused) == stopped \/ ~paused

\* start_validation goes on to start a worker: tkinter returns early when
\* self.thread is alive or the interpreter is missing, Qt has its Start
\* button disabled from one start to the next on_finished.  The command
\* line validator runs once, and exits at once when the interpreter is missing.
StartProceedsUnguarded ==
    CASE gui_env.toolkit = "tk" -> gui_env.ahk_exe
      [] gui_env.toolkit = "qt" -> TRUE
      [] OTHER -> threads = <<>> /\ gui_env.ahk_exe

StartProceeds ==
    CASE gui_env.toolkit = "tk" ->
           /\ ~(threads # <<>> /\ is_alive(threads[Len(threads)]))
           /\ gui_env.ahk_exe
      [] gui_env.toolkit = "qt" -> window.start_btn
      [] OTHER -> threads = <<>> /\ gui_env.ahk_exe

StartValidation ==
    /\ StartProceeds
    /\ Len(SelectSeq(threads, is_alive)) < MaxThreads
    /\ threads' = Append(SelectSeq(threads, is_alive), NewWorker)
    /\ window' =
         CASE gui_env.toolkit = "tk" ->
                [window EXCEPT !.stop_event = FALSE, !.paused = FALSE]
           [] gui_env.toolkit = "qt" ->
                [window EXCEPT !.start_btn = FALSE, !.pause_btn = TRUE,
                               !.stop_btn = TRUE, !.worker = TRUE]
           [] OTHER -> window
    /\ UNCHANGED <<gui_env, log_file>>
    /\ UNCHANGED <<coreVars, agentVars, sizesVars, csvVars, harmonyVars, moreVars>>

\* pause_at and stop_at remember how many validations a worker had begun
\* when the pause or the stop reached it.
TogglePause ==
    /\ gui_env.toolkit # "cli"
    /\ LET now == IF gui_env.toolkit = "tk" THEN ~window.paused ELSE ~window.is_paused
           noted(w) == IF ~is_alive(w) THEN w
                       ELSE [w EXCEPT !.pause_at = IF now THEN Len(w.begun) ELSE -1]
       IN IF gui_env.toolkit = "tk"
          THEN /\ window' = [window EXCEPT !.paused = now]
               /\ threads' = [k \in DOMAIN threads |-> noted(threads[k])]
          ELSE /\ window.pause_btn
               /\ window.worker
               /\ window' = [window EXCEPT !.is_paused = now]
               /\ threads' = [threads EXCEPT ![Len(threads)] =
                                [noted(@) EXCEPT !.w_paused = now]]
    /\ UNCHANGED <<gui_env, log_file>>
    /\ UNCHANGED <<coreVars, agentVars, sizesVars, csvVars, harmonyVars, moreVars>>

StopValidation ==
    /\ gui_env.toolkit # "cli"
    /\ LET noted(w) == IF is_alive(w) /\ w.stop_at < 0
                       THEN [w EXCEPT !.stop_at = Len(w.begun)] ELSE w
       IN IF gui_env.toolkit = "tk"
          THEN /\ window' = [window EXCEPT !.stop_event = TRUE]
               /\ threads' = [k \in DOMAIN threads |-> noted(threads[k])]
          ELSE /\ window.stop_btn
               /\ IF window.worker
                  THEN /\ window' = [window EXCEPT !.stop_btn = FALSE, !.pause_btn = FALSE]
                       /\ threads' = [threads EXCEPT ![Len(threads)] =
                                        [noted(@) EXCEPT !.w_stopped = TRUE]]
                  ELSE UNCHANGED <<window, threads>>
    /\ UNCHANGED <<gui_env, log_file>>
    /\ UNCHANGED <<coreVars, agentVars, sizesVars, csvVars, harmonyVars, moreVars>>

\* Qt: thread.finished, delivered to the GUI thread once the worker is done.
OnFinished ==
    /\ gui_env.toolkit = "qt"
    /\ \E k \in DOMAIN threads :
         /\ threads[k].w_pc = "done"
         /\ threads' = [threads EXCEPT ![k].w_pc = "joined"]
    /\ window' = [window EXCEPT !.start_btn = TRUE, !.pause_btn = FALSE,
                                !.stop_btn = FALSE, !.worker = FALSE,
                                !.is_paused = FALSE]
    /\ UNCHANGED <<gui_env, log_file>>
    /\ UNCHANGED <<coreVars, agentVars, sizesVars, csvVars, harmonyVars, moreVars>>

\* The worker enters its function: Qt's worker gives up at once when the
\* interpreter is missing; otherwise it lists the scripts.
WorkerScan ==
    \E k \in DOMAIN threads :
      /\ threads[k].w_pc = "started"
      /\ threads' = [threads EXCEPT ![k] =
           IF gui_env.toolkit = "qt" /\ ~gui_env.ahk_exe
           THEN [@ EXCEPT !.w_pc = "done"]
           ELSE [@ EXCEPT !.w_pc = "top", !.i = 1, !.has_results = TRUE,
                          !.summary = [total |-> gui_env.files, passed |-> 0,
                                       failed |-> 0, errors |-> 0]]]
      /\ UNCHANGED <<gui_env, window, log_file>>
      /\ UNCHANGED <<coreVars, agentVars, sizesVars, csvVars, harmonyVars, moreVars>>

\* Head of the loop: the list is used up, or the first stop check.  The
\* command line validator goes straight on to the file.
WorkerCheckStop ==
    \E k \in DOMAIN threads :
      /\ threads[k].w_pc = "top"
      /\ threads' = [threads EXCEPT ![k].w_pc =
           IF threads[k].i > gui_env.files \/ stop_is_set(threads[k])
           THEN "save"
           ELSE IF gui_env.toolkit = "cli" THEN "begin" ELSE "pause"]
      /\ UNCHANGED <<gui_env, window, log_file>>
      /\ UNCHANGED <<coreVars, agentVars, sizesVars, csvVars, harmonyVars, moreVars>>

\* A pass of the pause loop that leaves it; a pass that sleeps changes nothing.
WorkerPauseLoop ==
    \E k \in DOMAIN threads :
      /\ threads[k].w_pc = "pause"
      /\ PauseLoopExits(stop_is_set(threads[k]), pause_is_set(threads[k]))
      /\ threads' = [threads EXCEPT ![k].w_pc = "after_pause"]
      /\ UNCHANGED <<gui_env, window, log_file>>
      /\ UNCHANGED <<coreVars, agentVars, sizesVars, csvVars, harmonyVars, moreVars>>

\* The stop check after the pause loop.
WorkerCheckStopAgain ==
    \E k \in DOMAIN threads :
      /\ threads[k].w_pc = "after_pause"
      /\ threads' = [threads EXCEPT ![k].w_pc =
           IF stop_is_set(threads[k]) THEN "save" ELSE "begin"]
      /\ UNCHANGED <<gui_env, window, log_file>>
      /\ UNCHANGED <<coreVars, agentVars, sizesVars, csvVars, harmonyVars, moreVars>>

\* The status line is set and subprocess.run is called on file i.
WorkerBegin ==
    \E k \in DOMAIN threads :
      /\ threads[k].w_pc = "begin"
      /\ threads' = [threads EXCEPT ![k] =
           [@ EXCEPT !.w_pc = "validating", !.begun = Append(@, threads[k].i)]]
      /\ UNCHANGED <<gui_env, window, log_file>>
      /\ UNCHANGED <<coreVars, agentVars, sizesVars, csvVars, harmonyVars, moreVars>>

\* subprocess.run returns or raises (it has timeout=5); the counters are
\* updated and every SAVE_EVERY-th file the results are saved.  The command
\* line validator passes a file with blank output by "continue", which
\* skips that save.
WorkerValidated ==
    \E k \in DOMAIN threads, run \in RunResults :
      /\ threads[k].w_pc = "validating"
      /\ LET w == threads[k]
             s == w.summary
             outcome == OutcomeOf(gui_env.toolkit, run)
             continued == /\ gui_env.toolkit = "cli"
                          /\ run.exc = "none"
                          /\ outcome = "passed"
                          /\ (run.stdout # <<>> \/ run.stderr # <<>>)
             counted ==
               [w EXCEPT
                  !.summary =
                     CASE outcome = "passed" -> [s EXCEPT !.passed = @ + 1]
                       [] outcome = "failed" -> [s EXCEPT !.failed = @ + 1]
                       [] OTHER -> [s EXCEPT !.errors = @ + 1],
                  !.failures = IF outcome = "passed" THEN @ ELSE @ + 1,
                  !.last_run = run]
         IN /\ log_file' = IF w.i % SAVE_EVERY = 0 /\ ~continued
                           THEN ResultsOf(counted) ELSE log_file
            /\ threads' = [threads EXCEPT ![k] =
                 IF gui_env.toolkit = "tk"
                 THEN [counted EXCEPT !.w_pc = "end"]
                 ELSE [counted EXCEPT !.w_pc = "top", !.i = @ + 1]]
      /\ UNCHANGED <<gui_env, window>>
      /\ UNCHANGED <<coreVars, agentVars, sizesVars, csvVars, harmonyVars, moreVars>>

\* tkinter: the stop check that ends an iteration.
WorkerCheckStopEnd ==
    \E k \in DOMAIN threads :
      /\ threads[k].w_pc = "end"
      /\ threads' = [threads EXCEPT ![k] =
           IF stop_is_set(threads[k])
           THEN [@ EXCEPT !.w_pc = "save"]
           ELSE [@ EXCEPT !.w_pc = "top", !.i = @ + 1]]
      /\ UNCHANGED <<gui_env, window, log_file>>
      /\ UNCHANGED <<coreVars, agentVars, sizesVars, csvVars, harmonyVars, moreVars>>

\* After the loop: save_results(results), the summary lines, and the end of
\* the worker's function.
WorkerSave ==
    \E k \in DOMAIN threads :
      /\ threads[k].w_pc = "save"
      /\ log_file' = ResultsOf(threads[k])
      /\ threads' = [threads EXCEPT ![k].w_pc = "done"]
      /\ UNCHANGED <<gui_env, window>>
      /\ UNCHANGED <<coreVars, agentVars, sizesVars, csvVars, harmonyVars, moreVars>>

(***************************************************************************)
(* FixerService (src/tools/web-reviewer/services/fixer.py).  fix_file is a *)
(* coroutine: it runs without interruption up to its awaits, on the        *)
(* creation of the agent's subprocess and on its end, and other calls run  *)
(* meanwhile.  The agent is a process of its own that may rewrite the      *)
(* script.  The backup's name ends in the time of the call, to the second. *)
(* All calls here are for one script.                                      *)
(***************************************************************************)
\* shutil.copy2(backup_path, file_path) in the exception handler: the call
\* returns its failure, or the copy raises and the exception leaves fix_file.
RestoreFromBackup(k, restore_raises) ==
    IF restore_raises
    THEN /\ fx_calls' = [fx_calls EXCEPT ![k].fx_pc = "raised"]
         /\ UNCHANGED fx_file
    ELSE /\ fx_calls' = [fx_calls EXCEPT ![k].fx_pc = "returned", ![k].success = "false"]
         /\ fx_file' = fx_backups[fx_calls[k].backup_at]

\* fix_file, or preview_fix which only calls it, up to the first await.
FixFileBegin ==
    /\ Len(fx_calls) < MaxFixCalls
    /\ \E preview \in BOOLEAN, io \in {"ok", "read_fails", "copy_fails"} :
         LET call == [preview |-> preview, fx_pc |-> "spawn", success |-> "none",
                      original_content |-> fx_file, backup_at |-> fx_now,
                      before |-> fx_file, agent |-> "none"]
         IN IF fx_file = "absent" \/ io = "read_fails"
            THEN /\ fx_calls' = Append(fx_calls,
                                  [call EXCEPT !.fx_pc = "returned", !.success = "false"])
                 /\ UNCHANGED fx_backups
            ELSE IF io = "copy_fails"
            THEN /\ fx_calls' = Append(fx_calls, [call EXCEPT !.fx_pc = "raised"])
                 /\ UNCHANGED fx_backups
            ELSE /\ fx_calls' = Append(fx_calls, call)
                 /\ fx_backups' = (fx_now :> fx_file) @@ fx_backups
    /\ UNCHANGED <<fx_file, fx_now>>
    /\ UNCHANGED <<coreVars, extVars, orgVars, hdrVars, renVars>>

\* create_subprocess_shell is done: the agent runs, or the call raised.
FixFileSpawned ==
    /\ \E k \in DOMAIN fx_calls, raises \in BOOLEAN, restore_raises \in BOOLEAN :
         /\ fx_calls[k].fx_pc = "spawn"
         /\ IF raises
            THEN RestoreFromBackup(k, restore_raises)
            ELSE /\ fx_calls' = [fx_calls EXCEPT ![k].fx_pc = "communicate",
                                                 ![k].agent = "running"]
                 /\ UNCHANGED fx_file
    /\ UNCHANGED <<fx_backups, fx_now>>
    /\ UNCHANGED <<coreVars, extVars, orgVars, hdrVars, renVars>>

\* The agent process ("agent.py fix <file> --level=...") does its work: it
\* rewrites the script or leaves it, and exits.
AgentProcess ==
    /\ \E k \in DOMAIN fx_calls, rewrites \in BOOLEAN :
         /\ fx_calls[k].agent = "running"
         /\ fx_calls' = [fx_calls EXCEPT ![k].agent = "exited"]
         /\ fx_file' = IF rewrites /\ fx_file # "absent" THEN "fixed" ELSE fx_file
    /\ UNCHANGED <<fx_backups, fx_now>>
    /\ UNCHANGED <<coreVars, extVars, orgVars, hdrVars, renVars>>

\* communicate() is done: the new content is read and the result built, or
\* something in that raises (the output does not decode, say).
FixFileEnd ==
    /\ \E k \in DOMAIN fx_calls, raises \in BOOLEAN, restore_raises \in BOOLEAN :
         /\ fx_calls[k].fx_pc = "communicate"
         /\ fx_calls[k].agent = "exited"
         /\ IF raises
            THEN RestoreFromBackup(k, restore_raises)
            ELSE /\ fx_calls' = [fx_calls EXCEPT ![k].fx_pc = "returned",
                                                 ![k].success = "true"]
                 /\ UNCHANGED fx_file
    /\ UNCHANGED <<fx_backups, fx_now>>
    /\ UNCHANGED <<coreVars, extVars, orgVars, hdrVars, renVars>>

\* The clock reaches the next second.
ClockTick ==
    /\ fx_now < MaxClock
    /\ fx_now' = fx_now + 1
    /\ UNCHANGED <<fx_file, fx_backups, fx_calls>>
    /\ UNCHANGED <<coreVars, extVars, orgVars, hdrVars, renVars>>

(***************************************************************************)
(* organize_files (src/scripts/organize_examples.py).  A file name is the  *)
(* sequence of its characters.  The files of BASE_DIR and of the target    *)
(* folders are maps from name to content.                                  *)
(***************************************************************************)
\* Four of the entries of PREFIX_TO_FOLDER, an alias among them.
PREFIX_TO_FOLDER ==
    (<<"L", "i", "b">> :> "Library") @@ (<<"E", "n", "v">> :> "Env")
      @@ (<<"G", "U", "I">> :> "GUI") @@ (<<"L", "i", "b", "r", "a", "r", "y">> :> "Library")

\* Entries of BASE_DIR, in sorted order: Env_a.ahk, Lib-a.AHK, Lib_a.ahk,
\* Lib_a.txt, Liba.ahk, lib_a.ahk.
OrgNames ==
    << <<"E", "n", "v", "_", "a", ".", "a", "h", "k">>,
       <<"L", "i", "b", "-", "a", ".", "A", "H", "K">>,
       <<"L", "i", "b", "_", "a", ".", "a", "h", "k">>,
       <<"L", "i", "b", "_", "a", ".", "t", "x", "t">>,
       <<"L", "i", "b", "a", ".", "a", "h", "k">>,
       <<"l", "i", "b", "_", "a", ".", "a", "h", "k">> >>

StartsWith(s, p) == Len(p) <= Len(s) /\ SubSeq(s, 1, Len(p)) = p

\* f.suffix.lower() == ".ahk", for names of one dot.
HasAhkSuffix(name) ==
    LET lower(c) == CASE c = "A" -> "a" [] c = "H" -> "h" [] c = "K" -> "k" [] OTHER -> c
        n == Len(name)
    IN /\ n > 4
       /\ [j \in 1..4 |-> lower(name[n - 4 + j])] = <<".", "a", "h", "k">>

\* The folder of the first prefix that matches, or "None".  No key holds a
\* separator, so at most one key matches with its separator.
get_target_folder_without_separator(filename) ==
    LET hits == {p \in DOMAIN PREFIX_TO_FOLDER : StartsWith(filename, p)}
    IN IF hits = {} THEN "None"
       ELSE PREFIX_TO_FOLDER[CHOOSE p \in hits : \A q \in hits : Len(p) <= Len(q)]

get_target_folder(filename) ==
    LET hits == {p \in DOMAIN PREFIX_TO_FOLDER :
                    \/ StartsWith(filename, Append(p, "_"))
                    \/ StartsWith(filename, Append(p, "-"))}
    IN IF hits = {} THEN "None" ELSE PREFIX_TO_FOLDER[CHOOSE p \in hits : TRUE]

\* organize_files up to its loop: the .ahk files of BASE_DIR, sorted.
OrganizeList ==
    /\ org_pc = "ready"
    /\ org_todo' = SelectSeq(OrgNames,
                      LAMBDA n : n \in DOMAIN org_base /\ HasAhkSuffix(n))
    /\ org_stats' = [moved |-> <<>>, already_in_folder |-> <<>>, no_match |-> <<>>,
                     errors |-> <<>>]
    /\ org_pc' = "loop"
    /\ UNCHANGED <<org_base, org_folders, org_dry_run, org_before>>
    /\ UNCHANGED <<coreVars, extVars, fixVars, hdrVars, renVars>>

\* One iteration of the loop.  mkdir is outside the try: when it raises, the
\* run ends with that exception.  shutil.move raises when asked to
\* (move_fails) and whenever the folder's path is a file.
OrganizeFile ==
    /\ org_pc = "loop"
    /\ org_todo # <<>>
    /\ \E io \in {"ok", "mkdir_fails", "move_fails"} :
         LET filename == Head(org_todo)
             target_folder == get_target_folder(filename)
             at == org_folders[target_folder]
             note(list, entry) == [org_stats EXCEPT ![list] = Append(@, entry)]
             made == IF at.kind = "absent" /\ ~org_dry_run
                     THEN [org_folders EXCEPT ![target_folder].kind = "dir"]
                     ELSE org_folders
         IN IF target_folder = "None"
            THEN /\ org_stats' = note("no_match", filename)
                 /\ org_pc' = org_pc
                 /\ UNCHANGED <<org_base, org_folders>>
            ELSE IF at.kind = "dir" /\ filename \in DOMAIN at.files
            THEN /\ org_stats' = note("already_in_folder", filename)
                 /\ org_pc' = org_pc
                 /\ UNCHANGED <<org_base, org_folders>>
            ELSE IF at.kind = "absent" /\ ~org_dry_run /\ io = "mkdir_fails"
            THEN /\ org_pc' = "raised"
                 /\ UNCHANGED <<org_base, org_folders, org_stats>>
            ELSE IF org_dry_run
            THEN /\ org_stats' = note("moved", filename)
                 /\ org_pc' = org_pc
                 /\ UNCHANGED <<org_base, org_folders>>
            ELSE IF io = "move_fails" \/ at.kind = "file"
            THEN /\ org_stats' = note("errors", filename)
                 /\ org_pc' = org_pc
                 /\ org_folders' = made
                 /\ UNCHANGED org_base
            ELSE /\ org_stats' = note("moved", filename)
                 /\ org_pc' = org_pc
                 /\ org_folders' = [made EXCEPT ![target_folder].files =
                                      (filename :> org_base[filename]) @@ @]
                 /\ org_base' = [n \in DOMAIN org_base \ {filename} |-> org_base[n]]
    /\ org_todo' = Tail(org_todo)
    /\ UNCHANGED <<org_dry_run, org_before>>
    /\ UNCHANGED <<coreVars, extVars, fixVars, hdrVars, renVars>>

\* The loop is over: organize_files returns the statistics.
OrganizeReturn ==
    /\ org_pc = "loop"
    /\ org_todo = <<>>
    /\ org_pc' = "done"
    /\ UNCHANGED <<org_base, org_folders, org_dry_run, org_todo, org_stats, org_before>>
    /\ UNCHANGED <<coreVars, extVars, fixVars, hdrVars, renVars>>

(***************************************************************************)
(* reorder_header (src/scripts/format_ahk_examples.py).  A line is the     *)
(* sequence of its tokens: words, and " " for a run of blanks.             *)
(***************************************************************************)
HeaderLines ==
    { <<" ">>,
      <<";", "c">>,
      <<"/*">>,
      <<"*/">>,
      <<"/*", "c", "*/">>,
      <<"#Requires", " ", "AutoHotkey", " ", "v2">>,
      <<"#Requires", " ", "AutoHotkey", " ", "v1">>,
      <<" ", "#singleinstance">>,
      <<"#Include", " ", "a">>,
      <<"#Include", " ", "b", " ">>,
      <<"#Warn">>,
      <<"x">> }

\* str.lower on a token.
TokLower(tok) ==
    CASE tok = "#Requires" -> "#requires"
      [] tok = "AutoHotkey" -> "autohotkey"
      [] tok = "#Include" -> "#include"
      [] OTHER -> tok

RECURSIVE line_lstrip(_)
line_lstrip(line) ==
    IF line # <<>> /\ Head(line) = " " THEN line_lstrip(Tail(line)) ELSE line

RECURSIVE line_rstrip(_)
line_rstrip(line) ==
    IF line # <<>> /\ line[Len(line)] = " "
    THEN line_rstrip(SubSeq(line, 1, Len(line) - 1))
    ELSE line

\* ^\s*#requires\s+autohotkey\s+v2, IGNORECASE
RE_REQUIRES_V2(line) ==
    LET s == line_lstrip(line)
    IN /\ Len(s) >= 5
       /\ TokLower(s[1]) = "#requires"
       /\ s[2] = " "
       /\ TokLower(s[3]) = "autohotkey"
       /\ s[4] = " "
       /\ TokLower(s[5]) = "v2"

\* ^\s*#singleinstance\b, IGNORECASE
RE_SINGLE_INSTANCE(line) ==
    LET s == line_lstrip(line)
    IN s # <<>> /\ TokLower(s[1]) = "#singleinstance"

\* ^\s*#include\b, IGNORECASE
RE_INCLUDE(line) ==
    LET s == line_lstrip(line)
    IN s # <<>> /\ TokLower(s[1]) = "#include"

\* tok.startswith("#")
StartsWithHash(tok) == tok \in {"#Requires", "#singleinstance", "#Include", "#Warn"}

\* The loop the two find_ functions share; with_directives is whether lines
\* that start with '#' are passed over.  The result counts from 0.
RECURSIVE find_end(_, _, _, _)
find_end(lines, idx, in_block_comment, with_directives) ==
    IF idx > Len(lines) THEN Len(lines)
    ELSE LET stripped == line_lstrip(lines[idx])
         IN IF in_block_comment
            THEN find_end(lines, idx + 1, ~(\E j \in DOMAIN stripped : stripped[j] = "*/"),
                          with_directives)
            ELSE IF stripped = <<>>
            THEN find_end(lines, idx + 1, FALSE, with_directives)
            ELSE IF stripped[1] = ";"
            THEN find_end(lines, idx + 1, FALSE, with_directives)
            ELSE IF stripped[1] = "/*"
            THEN find_end(lines, idx + 1, TRUE, with_directives)
            ELSE IF with_directives /\ StartsWithHash(stripped[1])
            THEN find_end(lines, idx + 1, FALSE, with_directives)
            ELSE idx - 1

find_header_end(lines) == find_end(lines, 1, FALSE, TRUE)

find_comment_prefix_end(lines) == find_end(lines, 1, FALSE, FALSE)

\* The positions of a sequence that satisfy Test, in order.
IdxsWhere(seq, Test(_)) ==
    SelectSeq([j \in 1..Len(seq) |-> j], LAMBDA j : Test(seq[j]))

reorder_header(lines) ==
    LET header_end == find_header_end(lines)
        header == SubSeq(lines, 1, header_end)
        rest == SubSeq(lines, header_end + 1, Len(lines))
        prefix_end == find_comment_prefix_end(header)
        prefix == SubSeq(header, 1, prefix_end)
        reorderable == SubSeq(header, prefix_end + 1, Len(header))
        requires_idxs == IdxsWhere(reorderable, RE_REQUIRES_V2)
        single_idxs == IdxsWhere(reorderable, RE_SINGLE_INSTANCE)
        include_idxs == IdxsWhere(reorderable, RE_INCLUDE)
        first(idxs) == IF idxs = <<>> THEN <<>> ELSE <<Head(idxs)>>
        moved1 == first(requires_idxs) \o first(single_idxs)
        in(idxs) == {idxs[j] : j \in DOMAIN idxs}
        moved2 == moved1 \o SelectSeq(include_idxs, LAMBDA i : i \notin in(moved1))
        order == moved2 \o SelectSeq([j \in 1..Len(reorderable) |-> j],
                                     LAMBDA i : i \notin in(moved2))
        new_header == [j \in 1..Len(order) |-> line_rstrip(reorderable[order[j]])]
    IN prefix \o new_header \o rest

\* The call reorder_header(lines).
ReorderHeader ==
    /\ ~rh_result.returned
    /\ rh_result' = [returned |-> TRUE, lines |-> reorder_header(rh_lines)]
    /\ UNCHANGED rh_lines
    /\ UNCHANGED <<coreVars, extVars, fixVars, orgVars, renVars>>

(***************************************************************************)
(* plan_renames and perform_renames (src/scripts/rename_yunit_tests.py).   *)
(* Names and tokens are sequences of characters.  YUNIT_DIR maps each file *)
(* name to the first token _token_candidates finds in the file's text, <<>> *)
(* when it finds none.                                                     *)
(***************************************************************************)
YUNIT_PREFIX == <<"Y", "u", "n", "i", "t", "_", "T", "e", "s", "t", "_">>

DOT_AHK == <<".", "a", "h", "k">>

\* The Yunit_Test_*.ahk names of the model, sorted by name.lower():
\* Yunit_Test_1.ahk, Yunit_Test_2.ahk, Yunit_Test_a-b.ahk, Yunit_Test_a.b.ahk.
YunitNames ==
    << YUNIT_PREFIX \o <<"1">> \o DOT_AHK,
       YUNIT_PREFIX \o <<"2">> \o DOT_AHK,
       YUNIT_PREFIX \o <<"a", "-", "b">> \o DOT_AHK,
       YUNIT_PREFIX \o <<"a", ".", "b">> \o DOT_AHK >>

\* First tokens of a text: none, Foo, _Foo, StrLen.
PrimaryTokens ==
    { <<>>, <<"F", "o", "o">>, <<"_", "F", "o", "o">>, <<"S", "t", "r", "L", "e", "n">> }

\* A file that is in the directory already: Misc_Foo_ex01.ahk.
ExistingName ==
    <<"M", "i", "s", "c", "_", "F", "o", "o", "_", "e", "x", "0", "1">> \o DOT_AHK

Digits == <<"0", "1", "2", "3", "4", "5", "6", "7", "8", "9">>

IsDigit(c) == \E d \in DOMAIN Digits : Digits[d] = c

IsLetter(c) ==
    c \in {"F", "L", "M", "S", "T", "Y", "a", "b", "c", "e", "h", "i", "k", "n", "o",
           "r", "s", "t", "u", "x"}

\* [A-Za-z0-9_]
IsWordChar(c) == IsLetter(c) \/ IsDigit(c) \/ c = "_"

\* re.sub(<class>+, "_", s): every maximal run of InClass characters
\* becomes one underscore.
RECURSIVE SubRuns(_, _, _)
SubRuns(s, InClass(_), in_run) ==
    IF s = <<>> THEN <<>>
    ELSE IF InClass(Head(s))
    THEN (IF in_run THEN <<>> ELSE <<"_">>) \o SubRuns(Tail(s), InClass, TRUE)
    ELSE <<Head(s)>> \o SubRuns(Tail(s), InClass, FALSE)

\* s.strip("_")
RECURSIVE StripUnderscores(_)
StripUnderscores(s) ==
    IF s # <<>> /\ Head(s) = "_" THEN StripUnderscores(Tail(s))
    ELSE IF s # <<>> /\ s[Len(s)] = "_" THEN StripUnderscores(SubSeq(s, 1, Len(s) - 1))
    ELSE s

slugify(name) ==
    LET slug1 == SubRuns(name, LAMBDA c : ~IsWordChar(c), FALSE)
        slug2 == SubRuns(slug1, LAMBDA c : c = "_", FALSE)
    IN StripUnderscores(slug2)

\* sub in s
Contains(s, sub) ==
    \E j \in 0..(Len(s) - Len(sub)) : SubSeq(s, j + 1, j + Len(sub)) = sub

\* derive_category, for tokens that no override and no fallback prefix
\* names and that hold neither "Loop" nor a leading "For".
derive_category(token) ==
    IF token = <<>> THEN <<"M", "i", "s", "c">>
    ELSE LET token_clean == SelectSeq(token, LAMBDA c : c # "_")
         IN IF Contains(token_clean, <<"S", "t", "r">>)
            THEN <<"S", "t", "r", "i", "n", "g">>
            ELSE <<"M", "i", "s", "c">>

\* int(digits)
RECURSIVE IntOf(_)
IntOf(digits) ==
    IF digits = <<>> THEN 0
    ELSE 10 * IntOf(SubSeq(digits, 1, Len(digits) - 1))
         + (CHOOSE d \in DOMAIN Digits : Digits[d] = digits[Len(digits)]) - 1

\* f"{n:02d}", for n below 100
Format02d(n) == <<Digits[(n \div 10) + 1], Digits[(n % 10) + 1]>>

\* name_pattern.match(name): ^[A-Za-z]+_([A-Za-z0-9_]+)_ex(\d+)\.ahk$.  The
\* letters end at the first underscore and, as neither digits nor ".ahk"
\* hold one, "_ex" starts at the last.  <<>> when there is no match.
name_pattern(name) ==
    LET unders == {j \in DOMAIN name : name[j] = "_"}
        p == CHOOSE j \in unders : \A k \in unders : j <= k
        q == CHOOSE j \in unders : \A k \in unders : j >= k
        n == Len(name)
        digits == SubSeq(name, q + 3, n - 4)
    IN IF /\ unders # {}
          /\ p > 1 /\ \A j \in 1..(p - 1) : IsLetter(name[j])
          /\ q > p + 1 /\ \A j \in (p + 1)..(q - 1) : IsWordChar(name[j])
          /\ n >= q + 7
          /\ SubSeq(name, q + 1, q + 2) = <<"e", "x">>
          /\ SubSeq(name, n - 3, n) = DOT_AHK
          /\ \A j \in DOMAIN digits : IsDigit(digits[j])
       THEN <<[slug |-> SubSeq(name, p + 1, q - 1), index |-> IntOf(digits)]>>
       ELSE <<>>

\* The first loop of plan_renames: the highest index of every slug among
\* the files that are not Yunit tests.
existing_max_by_slug(dir, slug) ==
    LET found == {name_pattern(name)[1].index :
                    name \in {e \in DOMAIN dir : /\ ~StartsWith(e, YUNIT_PREFIX)
                                                /\ name_pattern(e) # <<>>
                                                /\ name_pattern(e)[1].slug = slug}}
    IN IF found = {} THEN 0 ELSE CHOOSE m \in found : \A k \in found : m >= k

\* src.stem
Stem(name) ==
    LET dots == {j \in DOMAIN name : name[j] = "."}
    IN IF dots = {} THEN name
       ELSE SubSeq(name, 1, (CHOOSE j \in dots : \A k \in dots : j >= k) - 1)

\* The second loop of plan_renames from the file at position pos on, with
\* the counters as the files before it left them.
RECURSIVE PlanFrom(_, _, _, _)
PlanFrom(dir, files, pos, counts_by_token) ==
    IF pos > Len(files) THEN <<>>
    ELSE LET src == files[pos]
             primary == dir[src]
             category == derive_category(primary)
             base == IF primary # <<>> THEN slugify(primary) ELSE slugify(Stem(src))
             start == IF primary \in DOMAIN counts_by_token THEN counts_by_token[primary]
                      ELSE existing_max_by_slug(dir, base)
             counts == IF primary # <<>>
                       THEN (primary :> (start + 1)) @@ counts_by_token
                       ELSE counts_by_token
             new_name == IF primary # <<>>
                         THEN category \o <<"_">> \o base \o <<"_", "e", "x">>
                                \o Format02d(counts[primary]) \o DOT_AHK
                         ELSE <<"M", "i", "s", "c", "_">> \o base \o DOT_AHK
         IN <<[source |-> src, target |-> new_name, token |-> primary,
               category |-> category]>>
              \o PlanFrom(dir, files, pos + 1, counts)

plan_renames(dir, files) == PlanFrom(dir, files, 1, <<>>)

\* main up to perform_renames: the Yunit_Test_*.ahk files are planned, and
\* without --apply, or with no such file, the program ends there.
MainPlan ==
    /\ rn_pc = "ready"
    /\ \E apply \in BOOLEAN :
         LET files == SelectSeq(YunitNames, LAMBDA n : n \in DOMAIN rn_dir)
         IN IF files = <<>>
            THEN /\ rn_pc' = "exit"
                 /\ UNCHANGED rn_plans
            ELSE /\ rn_plans' = plan_renames(rn_dir, files)
                 /\ rn_pc' = IF apply THEN "perform" ELSE "dry_run"
    /\ UNCHANGED <<rn_dir, rn_pos, rn_renamed>>
    /\ UNCHANGED <<coreVars, extVars, fixVars, orgVars, hdrVars>>

\* One iteration of the loop of perform_renames.
PerformRename ==
    /\ rn_pc = "perform"
    /\ rn_pos <= Len(rn_plans)
    /\ LET plan == rn_plans[rn_pos]
       IN IF plan.source = plan.target
          THEN /\ rn_pos' = rn_pos + 1
               /\ UNCHANGED <<rn_dir, rn_pc, rn_renamed>>
          ELSE IF plan.target \in DOMAIN rn_dir
          THEN /\ rn_pc' = "FileExistsError"
               /\ UNCHANGED <<rn_dir, rn_pos, rn_renamed>>
          ELSE /\ rn_dir' = (plan.target :> rn_dir[plan.source])
                              @@ [n \in DOMAIN rn_dir \ {plan.source} |-> rn_dir[n]]
               /\ rn_renamed' = rn_renamed + 1
               /\ rn_pos' = rn_pos + 1
               /\ UNCHANGED rn_pc
    /\ UNCHANGED rn_plans
    /\ UNCHANGED <<coreVars, extVars, fixVars, orgVars, hdrVars>>

\* perform_renames returns.
PerformReturn ==
    /\ rn_pc = "perform"
    /\ rn_pos > Len(rn_plans)
    /\ rn_pc' = "applied"
    /\ UNCHANGED <<rn_dir, rn_plans, rn_pos, rn_renamed>>
    /\ UNCHANGED <<coreVars, extVars, fixVars, orgVars, hdrVars>>

(***************************************************************************)
(* Specifications.                                                         *)
(***************************************************************************)
NoMeta == [k \in {} |-> k]

Seeds == {42, 2025}

\* Records for dedupe: two prompts, two responses, three metadata mappings.
DedupePool ==
    {SnippetRecord(p, r, m) :
        p \in {"p1", "p2"},
        r \in {<<"a", NL>>, <<"b", NL>>},
        m \in {NoMeta, "existing" :> "data", "sha256" :> "stale"}}

\* Records for split_records.
SplitPool == {SnippetRecord(p, <<p, NL>>, NoMeta) : p \in {"p1", "p2", "p3"}}

SnippetIdle ==
    /\ fs = <<>> /\ it_state = "idle" /\ it_paths = <<>> /\ it_pos = 1
    /\ yielded = <<>>

DedupeIdle ==
    /\ dd_records = <<>> /\ dd_given = <<>> /\ dd_state = "idle" /\ unique = <<>>

SplitIdle ==
    /\ sp_records = <<>> /\ sp_given = <<>> /\ val_num = 0 /\ test_num = 0
    /\ seed = 0 /\ mt = <<>> /\ runs = <<>>

MainIdle ==
    /\ pc = "idle" /\ exc = "none" /\ dry_run = FALSE /\ main_records = <<>>
    /\ unique_records = <<>> /\ splits = <<>> /\ out = <<>> /\ out_before = <<>>

WebIdle ==
    /\ svc = <<>> /\ status_file = <<>> /\ linting = EmptyBag /\ sent = 0
    /\ last_set = <<>> /\ last_lint = <<>> /\ last_code = 0 /\ overlapped = FALSE
    /\ last_req = <<>>

AgentIdle ==
    /\ disk = <<>> /\ backup_files = <<>> /\ ag_pc = "idle" /\ ag_dry_run = FALSE
    /\ ag_backup = FALSE /\ all_files = <<>> /\ ag_pos = 1 /\ apply_fixes = FALSE
    /\ report = <<>> /\ pre_edit = <<>>

CoreIdle == SnippetIdle /\ DedupeIdle /\ SplitIdle /\ MainIdle /\ WebIdle

SizesIdle == n_total = 0 /\ val_pct = 0 /\ test_pct = 0 /\ sizes = <<>>

CsvIdle ==
    /\ csv_file = <<>> /\ ref_state = "idle" /\ ref_pos = 1 /\ ref_yielded = <<>>
    /\ ref_from = <<>>

HarmonyIdle == hm_prompt = <<>> /\ hm_response = <<>> /\ hm_result = <<>>

GuiIdle == gui_env = <<>> /\ window = <<>> /\ threads = <<>> /\ log_file = <<>>

ExtIdle == AgentIdle /\ SizesIdle /\ CsvIdle /\ HarmonyIdle /\ GuiIdle

FixIdle == fx_file = "absent" /\ fx_backups = <<>> /\ fx_now = 0 /\ fx_calls = <<>>

OrgIdle ==
    /\ org_base = <<>> /\ org_folders = <<>> /\ org_dry_run = TRUE /\ org_pc = "idle"
    /\ org_todo = <<>> /\ org_stats = <<>> /\ org_before = <<>>

HdrIdle == rh_lines = <<>> /\ rh_result = [returned |-> FALSE, lines |-> <<>>]

RenIdle ==
    /\ rn_dir = <<>> /\ rn_pc = "idle" /\ rn_plans = <<>> /\ rn_pos = 1 /\ rn_renamed = 0

MoreIdle == FixIdle /\ OrgIdle /\ HdrIdle /\ RenIdle

SnippetInit ==
    /\ fs \in Directories(MaxFiles)
    /\ it_state = "created"
    /\ it_paths = <<>>
    /\ it_pos = 1
    /\ yielded = <<>>
    /\ DedupeIdle /\ SplitIdle /\ MainIdle /\ WebIdle /\ ExtIdle /\ MoreIdle

SnippetNext == IterStart \/ IterFile \/ IterEnd

SpecSnippets == SnippetInit /\ [][SnippetNext]_vars

DedupeInit ==
    /\ dd_records \in SeqsUpTo(DedupePool, MaxRecords)
    /\ dd_given = dd_records
    /\ dd_state = "ready"
    /\ unique = <<>>
    /\ SnippetIdle /\ SplitIdle /\ MainIdle /\ WebIdle /\ ExtIdle /\ MoreIdle

DedupeNext == DedupeCall

SpecDedupe == DedupeInit /\ [][DedupeNext]_vars

SplitInit ==
    /\ sp_records \in SeqsUpTo(SplitPool, MaxRecords)
    /\ sp_given = sp_records
    /\ val_num \in -1..RatioDen
    /\ test_num \in -1..RatioDen
    /\ seed \in Seeds
    /\ mt \in ShuffleDraws(MaxRecords)
    /\ runs = <<>>
    /\ SnippetIdle /\ DedupeIdle /\ MainIdle /\ WebIdle /\ ExtIdle /\ MoreIdle

SplitNext == SplitCall

SpecSplit == SplitInit /\ [][SplitNext]_vars

\* Input files of a build run: two snippets, a snippet that repeats the
\* first one up to trailing whitespace, an unreadable file and a file of
\* another extension.
MainEntries ==
    {Entry("ahk", "file", TRUE, <<"a">>),
     Entry("ahk", "file", TRUE, <<"a", "a">>),
     Entry("ahk", "file", TRUE, <<"a", NL>>),
     Entry("ahk", "file", FALSE, <<"a">>),
     Entry("txt", "file", TRUE, <<"a">>)}

\* Ratios given on the command line: below, at and beyond the ends of [0, 1).
MainRatioNums == {-1, 0, 1, RatioDen - 1, RatioDen}

\* The output directory before the run: missing, or holding earlier output.
OutputDirs ==
    {[exists |-> FALSE, files |-> [f \in OutFiles |-> "absent"]],
     [exists |-> TRUE, files |-> [f \in OutFiles |-> "stale"]]}

MainInit ==
    /\ fs \in SeqsUpTo(MainEntries, MaxMainFiles)
    /\ it_state = "idle" /\ it_paths = <<>> /\ it_pos = 1 /\ yielded = <<>>
    /\ val_num \in MainRatioNums
    /\ test_num \in MainRatioNums
    /\ seed = 2025
    /\ mt \in ShuffleDraws(MaxMainFiles)
    /\ sp_records = <<>> /\ sp_given = <<>> /\ runs = <<>>
    /\ DedupeIdle
    /\ pc = "start"
    /\ exc = "none"
    /\ dry_run \in BOOLEAN
    /\ main_records = <<>>
    /\ unique_records = <<>>
    /\ splits = <<>>
    /\ out \in OutputDirs
    /\ out_before = out
    /\ WebIdle /\ ExtIdle /\ MoreIdle

MainNext ==
    \/ MainCollect
    \/ MainDedupe
    \/ MainSplit
    \/ MainDryRunReturn
    \/ MainWriteTrain
    \/ MainWriteVal
    \/ MainWriteTest

SpecMain == MainInit /\ [][MainNext]_vars

\* The status file the service finds when it starts.
StatusFiles ==
    {StatusFile("missing", NoStatuses, NoQualities),
     StatusFile("corrupt", NoStatuses, NoQualities),
     StatusFile("json",
                [NoStatuses EXCEPT !["s1.ahk"] = "rejected"],
                [NoQualities EXCEPT !["s2.ahk"] =
                   [quality |-> "error", errors |-> 1, warnings |-> 0]])}

WebInit ==
    /\ status_file \in StatusFiles
    /\ svc = _load_statuses(status_file)
    /\ linting = EmptyBag
    /\ sent = 0
    /\ last_set = [id \in ScriptIds |-> "none"]
    /\ last_lint = [id \in ScriptIds |-> "none"]
    /\ last_code = 0
    /\ overlapped = FALSE
    /\ last_req = [endpoint |-> "none", status |-> "none"]
    /\ SnippetIdle /\ DedupeIdle /\ SplitIdle /\ MainIdle /\ ExtIdle /\ MoreIdle

WebNext == SetReviewStatus \/ LintScriptBegin \/ LintScriptEnd

SpecWeb == WebInit /\ [][WebNext]_vars

\* The agent as constructed: the dry_run and backup options, the scripts.
AgentInit ==
    /\ disk = AgentTree
    /\ backup_files = <<>>
    /\ ag_pc = "ready"
    /\ ag_dry_run \in BOOLEAN
    /\ ag_backup \in BOOLEAN
    /\ all_files = <<>>
    /\ ag_pos = 1
    /\ apply_fixes = FALSE
    /\ report = <<>>
    /\ pre_edit = <<>>
    /\ MoreIdle /\ CoreIdle /\ SizesIdle /\ CsvIdle /\ HarmonyIdle /\ GuiIdle

AgentNext == ProcessBatchCollect \/ ProcessBatchFile \/ ProcessBatchReturn

SpecAgent == AgentInit /\ [][AgentNext]_vars

SizesInit ==
    /\ n_total \in 0..MaxTotal
    /\ val_pct \in Percents
    /\ test_pct \in Percents
    /\ sizes = <<>>
    /\ MoreIdle /\ CoreIdle /\ AgentIdle /\ CsvIdle /\ HarmonyIdle /\ GuiIdle

SpecSizes == SizesInit /\ [][SplitSizes]_vars

RefInit ==
    /\ csv_file \in
          [exists : BOOLEAN, fieldnames : CsvHeaders,
           rows : SeqsUpTo(SeqsUpTo(CsvCells, MaxCells), MaxCsvRows)]
    /\ ref_state = "created"
    /\ ref_pos = 1
    /\ ref_yielded = <<>>
    /\ ref_from = <<>>
    /\ MoreIdle /\ CoreIdle /\ AgentIdle /\ SizesIdle /\ HarmonyIdle /\ GuiIdle

RefNext == RefStart \/ RefRow \/ RefEnd

SpecReference == RefInit /\ [][RefNext]_vars

\* Prompts and responses: text of blanks, newlines and one other character.
HarmonyInit ==
    /\ hm_prompt \in SeqsUpTo({SP, NL, "a"}, MaxText)
    /\ hm_response \in SeqsUpTo({SP, NL, "a"}, MaxText)
    /\ hm_result = <<>>
    /\ MoreIdle /\ CoreIdle /\ AgentIdle /\ SizesIdle /\ CsvIdle /\ GuiIdle

SpecHarmony == HarmonyInit /\ [][ToHarmony]_vars

GuiInit ==
    /\ MoreIdle /\ CoreIdle
    /\ AgentIdle
    /\ SizesIdle
    /\ CsvIdle
    /\ HarmonyIdle
    /\ gui_env \in [toolkit : Toolkits, ahk_exe : BOOLEAN, files : 0..MaxGuiFiles]
    /\ window = [stop_event |-> FALSE, paused |-> FALSE, is_paused |-> FALSE,
                 start_btn |-> TRUE, pause_btn |-> FALSE, stop_btn |-> FALSE,
                 worker |-> FALSE]
    /\ threads = <<>>
    /\ log_file = [exists |-> FALSE,
                   summary |-> [total |-> 0, passed |-> 0, failed |-> 0, errors |-> 0],
                   failures |-> 0]

GuiNext ==
    \/ StartValidation
    \/ TogglePause
    \/ StopValidation
    \/ OnFinished
    \/ WorkerScan
    \/ WorkerCheckStop
    \/ WorkerPauseLoop
    \/ WorkerCheckStopAgain
    \/ WorkerBegin
    \/ WorkerValidated
    \/ WorkerCheckStopEnd
    \/ WorkerSave

FixerInit ==
    /\ fx_file \in {"absent", "original"}
    /\ fx_backups = <<>>
    /\ fx_now = 0
    /\ fx_calls = <<>>
    /\ CoreIdle /\ ExtIdle /\ OrgIdle /\ HdrIdle /\ RenIdle

FixerNext == FixFileBegin \/ FixFileSpawned \/ AgentProcess \/ FixFileEnd \/ ClockTick

SpecFixer == FixerInit /\ [][FixerNext]_vars

\* BASE_DIR holds up to MaxOrgFiles entries, each with its own content; a
\* target folder's path is free, a file, or a directory that may hold an
\* older file under a name that BASE_DIR has as well.
OrganizeInit ==
    /\ \E names \in SUBSET {OrgNames[j] : j \in DOMAIN OrgNames} :
         /\ Cardinality(names) <= MaxOrgFiles
         /\ org_base = [n \in names |-> <<"new", n>>]
    /\ org_folders \in
         [{"Library", "Env", "GUI"} ->
            [kind : {"absent"}, files : {<<>>}]
              \cup [kind : {"file"}, files : {<<>>}]
              \cup [kind : {"dir"},
                    files : {<<>>} \cup {(OrgNames[j] :> "old") : j \in {1, 3}}]]
    /\ org_folders["GUI"].kind = "absent"
    /\ org_dry_run \in BOOLEAN
    /\ org_pc = "ready"
    /\ org_todo = <<>>
    /\ org_stats = <<>>
    /\ org_before = [base |-> org_base, folders |-> org_folders]
    /\ CoreIdle /\ ExtIdle /\ FixIdle /\ HdrIdle /\ RenIdle

OrganizeNext == OrganizeList \/ OrganizeFile \/ OrganizeReturn

SpecOrganize == OrganizeInit /\ [][OrganizeNext]_vars

\* Every file of up to MaxLines lines.
ReorderInit ==
    /\ rh_lines \in UNION {[1..n -> HeaderLines] : n \in 0..MaxLines}
    /\ rh_result = [returned |-> FALSE, lines |-> <<>>]
    /\ CoreIdle /\ ExtIdle /\ FixIdle /\ OrgIdle /\ RenIdle

ReorderNext == ReorderHeader

SpecReorder == ReorderInit /\ [][ReorderNext]_vars

\* The directory holds up to MaxRenFiles Yunit tests, each with its first
\* token, and may hold Misc_Foo_ex01.ahk.
RenameInit ==
    /\ \E names \in SUBSET {YunitNames[j] : j \in DOMAIN YunitNames},
          others \in SUBSET {ExistingName} :
         /\ Cardinality(names) <= MaxRenFiles
         /\ \E tokens \in [names -> PrimaryTokens] :
              rn_dir = tokens @@ [n \in others |-> <<>>]
    /\ rn_pc = "ready"
    /\ rn_plans = <<>>
    /\ rn_pos = 1
    /\ rn_renamed = 0
    /\ CoreIdle /\ ExtIdle /\ FixIdle /\ OrgIdle /\ HdrIdle

RenameNext == MainPlan \/ PerformRename \/ PerformReturn

SpecRename == RenameInit /\ [][RenameNext]_vars

SpecGui == GuiInit /\ [][GuiNext]_vars

\* A started thread is scheduled, and subprocess.run returns within its
\* timeout: each step of the worker that can be taken is taken in the end.
SpecGuiFair ==
    /\ GuiInit
    /\ [][GuiNext]_vars
    /\ WF_vars(WorkerScan)
    /\ WF_vars(WorkerCheckStop)
    /\ WF_vars(WorkerPauseLoop)
    /\ WF_vars(WorkerCheckStopAgain)
    /\ WF_vars(WorkerBegin)
    /\ WF_vars(WorkerValidated)
    /\ WF_vars(WorkerCheckStopEnd)
    /\ WF_vars(WorkerSave)

(***************************************************************************)
(* Properties of iterate_snippets.                                         *)
(***************************************************************************)
\* The position in fs of the file the k-th yielded record came from.
YieldedPath(k) == yielded[k].metadata.source_path[1]

YieldedPaths == {YieldedPath(k) : k \in 1..Len(yielded)}

\* Positions the loop has already dealt with.
Visited == {it_paths[k] : k \in 1..(it_pos - 1)}

IterEnded == it_state \in {"exhausted", "raised"}

IsAhkFile(e) == e.ext = "ahk" /\ e.kind = "file"

\* The file's content as text.
ContentOf(e) == ReadText(e.data)

\* C6: an exception raised while reading one input file is caught for that
\* file, and the remaining files are still processed and yield their
\* records: once the generator has ended, by exhaustion or by an exception,
\* every readable snippet file has its record.
C6_ReadErrorsCaught ==
    IterEnded =>
       \A i \in 1..Len(fs) :
          (IsAhkFile(fs[i]) /\ fs[i].readable /\ SnippetText(ContentOf(fs[i])) # <<>>)
             => i \in YieldedPaths

C8_NoLeadingBom ==
    \A k \in 1..Len(yielded) :
       LET text == ContentOf(fs[YieldedPath(k)])
       IN (text # <<>> /\ Head(text) = BOM) => Head(yielded[k].response) # BOM

\* C16: the response of every yielded record ends with one newline that
\* follows a character which is not whitespace.
C16_ResponseEndsWithOneNewline ==
    \A k \in 1..Len(yielded) :
       LET response == yielded[k].response
           n == Len(response)
       IN /\ n >= 2
          /\ response[n] = NL
          /\ response[n - 1] \notin Whitespace

\* A file whose text ends with two newlines was yielded with one.
C16_Witness ==
    \E k \in 1..Len(yielded) :
       /\ ContentOf(fs[YieldedPath(k)]) = <<"a", NL, NL>>
       /\ yielded[k].response = <<"a", NL>>

(***************************************************************************)
(* Properties of iterate_reference_elements.                               *)
(***************************************************************************)
\* The cell of a row under the column of the given name; no text when the
\* header has no such column or the row ends before it.
CellUnder(column, cells) ==
    LET fieldnames == csv_file.fieldnames
    IN IF \E i \in 1..Len(fieldnames) : fieldnames[i] = column /\ i <= Len(cells)
       THEN cells[CHOOSE i \in 1..Len(fieldnames) : fieldnames[i] = column]
       ELSE <<>>

\* The row has text other than whitespace under both Name and Description.
Qualifies(cells) ==
    /\ \E i \in 1..Len(CellUnder("Name", cells)) :
          CellUnder("Name", cells)[i] \notin Whitespace
    /\ \E i \in 1..Len(CellUnder("Description", cells)) :
          CellUnder("Description", cells)[i] \notin Whitespace

\* C15: the records yielded so far come one each, in row order, from exactly
\* the rows read so far that have a Name and a Description which are not
\* blank, each record naming the element of its row; once the generator has
\* returned, every row has been read.
C15_OneRecordPerQualifyingRow ==
    ref_state \in {"running", "exhausted"} =>
        /\ Len(ref_from) = Len(ref_yielded)
        /\ \A k \in 1..Len(ref_from) : \A l \in 1..Len(ref_from) :
              k < l => ref_from[k] < ref_from[l]
        /\ {ref_from[k] : k \in 1..Len(ref_from)}
              = {i \in 1..(ref_pos - 1) : Qualifies(csv_file.rows[i])}
        /\ \A k \in 1..Len(ref_from) :
              ref_yielded[k].metadata.name
                 = Strip(CellUnder("Name", csv_file.rows[ref_from[k]]))
        /\ ref_state = "exhausted" => ref_pos = Len(csv_file.rows) + 1

\* The generator has returned, having passed over a row that has cells and
\* yielded a record for a later row.
C15_Witness ==
    /\ ref_state = "exhausted"
    /\ Len(ref_yielded) >= 1
    /\ \E i \in 1..Len(csv_file.rows) :
          /\ ~Qualifies(csv_file.rows[i])
          /\ csv_file.rows[i] # <<>>
          /\ \E k \in 1..Len(ref_from) : ref_from[k] > i

(***************************************************************************)
(* Properties of to_harmony.                                               *)
(***************************************************************************)
\* content is text with whitespace, and nothing else, taken off both ends:
\* text is some whitespace, then content, then some whitespace, and content
\* neither begins nor ends with whitespace.
IsTrimmed(text, content) ==
    /\ \E lead \in 0..Len(text) :
          /\ lead + Len(content) <= Len(text)
          /\ \A i \in 1..lead : text[i] \in Whitespace
          /\ \A i \in 1..Len(content) : content[i] = text[lead + i]
          /\ \A i \in (lead + Len(content) + 1)..Len(text) : text[i] \in Whitespace
    /\ content # <<>> =>
          content[1] \notin Whitespace /\ content[Len(content)] \notin Whitespace

\* C17: to_harmony returns three messages, of the roles system, user and
\* assistant in this order; the user's content is the prompt and the
\* assistant's the response, with the whitespace at both ends removed and the
\* characters between unchanged.
C17_ThreeMessagesTrimmed ==
    hm_result # <<>> =>
        /\ Len(hm_result.messages) = 3
        /\ hm_result.messages[1].role = "system"
        /\ hm_result.messages[2].role = "user"
        /\ hm_result.messages[3].role = "assistant"
        /\ IsTrimmed(hm_prompt, hm_result.messages[2].content)
        /\ IsTrimmed(hm_response, hm_result.messages[3].content)

\* A prompt with whitespace at both ends and a response with a blank inside.
C17_Witness ==
    /\ hm_result # <<>>
    /\ hm_prompt = <<SP, "a", NL>>
    /\ hm_response = <<"a", SP, "a">>
    /\ hm_result.messages[2].content = <<"a">>
    /\ hm_result.messages[3].content = <<"a", SP, "a">>

(***************************************************************************)
(* Properties of dedupe.                                                   *)
(***************************************************************************)
\* The position of the first record of the input with the given response.
FirstWith(response) ==
    CHOOSE i \in 1..Len(dd_given) :
       /\ dd_given[i].response = response
       /\ \A j \in 1..(i - 1) : dd_given[j].response # response

\* C4: the output of dedupe holds at most one record per distinct response,
\* one for every response that occurs in the input, and the record kept for
\* a response carries the prompt of the first input record with it.
C4_OnePerResponseFirstPrompt ==
    dd_state = "returned" =>
       /\ \A k, l \in 1..Len(unique) :
             unique[k].response = unique[l].response => k = l
       /\ {unique[k].response : k \in 1..Len(unique)}
             = {dd_given[i].response : i \in 1..Len(dd_given)}
       /\ \A k \in 1..Len(unique) :
             unique[k].prompt = dd_given[FirstWith(unique[k].response)].prompt

\* C4 witness: dedupe returned fewer records than it was given, and the
\* dropped duplicate had another prompt than the record kept.
C4_Witness ==
    /\ dd_state = "returned"
    /\ Len(unique) < Len(dd_given)
    /\ \E i, j \in 1..Len(dd_given) :
          /\ i < j
          /\ dd_given[i].response = dd_given[j].response
          /\ dd_given[i].prompt # dd_given[j].prompt

\* C9: each record dedupe returns has the prompt and response of the input
\* record it came from and that record's metadata plus sha256 = SHA-256 of
\* the response; the input records and their metadata are left as they were.
C9_OnlyHashAdded ==
    dd_state = "returned" =>
       /\ dd_records = dd_given
       /\ \A k \in 1..Len(unique) :
             LET rec == dd_given[FirstWith(unique[k].response)]
                 meta == unique[k].metadata
             IN /\ unique[k].prompt = rec.prompt
                /\ unique[k].response = rec.response
                /\ DOMAIN meta = DOMAIN rec.metadata \cup {"sha256"}
                /\ meta["sha256"] = Sha256(rec.response)
                /\ \A key \in DOMAIN rec.metadata \ {"sha256"} :
                      meta[key] = rec.metadata[key]

\* C9 witness: a returned record whose input record had metadata of its own.
C9_Witness ==
    /\ dd_state = "returned"
    /\ \E k \in 1..Len(unique) :
          /\ "existing" \in DOMAIN unique[k].metadata
          /\ "sha256" \in DOMAIN unique[k].metadata

(***************************************************************************)
(* Properties of split_records.                                            *)
(***************************************************************************)
SeqToBag(seq) ==
    LET range == {seq[i] : i \in 1..Len(seq)}
    IN [x \in range |-> Cardinality({i \in 1..Len(seq) : seq[i] = x})]

\* C1: for valid ratios the lengths of train, val and test sum to the
\* length of the input.
C1_LengthsSum ==
    \A c \in 1..Len(runs) :
       ~runs[c].raised =>
          Len(runs[c].train) + Len(runs[c].val) + Len(runs[c].test) = Len(sp_given)

\* C1 witness: a call with valid ratios on a non-empty list that put
\* nothing into test.
C1_Witness ==
    \E c \in 1..Len(runs) :
       /\ ~runs[c].raised
       /\ Len(sp_given) = MaxRecords
       /\ runs[c].test = <<>>
       /\ runs[c].val # <<>>

\* C2: for valid ratios every input record appears in exactly one of train,
\* val and test: the three together hold the input's records, each as often
\* as the input does.
C2_Partition ==
    \A c \in 1..Len(runs) :
       ~runs[c].raised =>
          SeqToBag(runs[c].train \o runs[c].val \o runs[c].test) = SeqToBag(sp_given)

\* C2 witness: a call that split distinct records over train and val or test
\* in another order than the input's.
C2_Witness ==
    \E c \in 1..Len(runs) :
       /\ ~runs[c].raised
       /\ Len(sp_given) = MaxRecords
       /\ \A i, j \in 1..Len(sp_given) : sp_given[i] = sp_given[j] => i = j
       /\ runs[c].train \o runs[c].val \o runs[c].test # sp_given
       /\ runs[c].train # <<>>
       /\ runs[c].val \o runs[c].test # <<>>

\* C3: two calls of split_records with the same arguments, on the same list
\* object, put the same records in the same order into train, val and test.
C3_Deterministic ==
    \A c, d \in 1..Len(runs) : runs[c] = runs[d]

\* C3 witness: two successive calls whose shuffle changed the order of the
\* records.
C3_Witness ==
    /\ Len(runs) >= 2
    /\ ~runs[1].raised
    /\ runs[1].train \o runs[1].val \o runs[1].test # sp_given

(***************************************************************************)
(* Properties of main.                                                     *)
(***************************************************************************)
\* The claim's invalid ratio combinations: a ratio outside [0, 1), or a sum
\* of at least 1.
InvalidRatios ==
    \/ val_num < 0 \/ val_num >= RatioDen
    \/ test_num < 0 \/ test_num >= RatioDen
    \/ val_num + test_num >= RatioDen

\* C5: with an invalid ratio combination split_records raises a value
\* error, and the build run aborts there: it never gets past the split and
\* the output directory stays as the run found it.
C5_InvalidRatiosAbort ==
    InvalidRatios =>
       /\ pc \in {"start", "collected", "deduped", "raised"}
       /\ out = out_before
       /\ (pc = "raised" /\ ~iterate_snippets(fs).raised) => exc = "ValueError"

\* C5 witness: a run that collected and deduplicated records and was then
\* ended by the value error for ratios that are each in range but sum to 1
\* or more.
C5_Witness ==
    /\ pc = "raised"
    /\ exc = "ValueError"
    /\ unique_records # <<>>
    /\ 0 <= val_num /\ val_num < RatioDen
    /\ 0 <= test_num /\ test_num < RatioDen
    /\ val_num + test_num >= RatioDen

\* C13: in a dry run the output directory and its files stay as the run found
\* them, at every point of the run, and a dry run that completes has computed
\* the three splits of the deduplicated records.
C13_DryRunWritesNothing ==
    dry_run =>
        /\ out = out_before
        /\ pc = "done" =>
              /\ splits # <<>>
              /\ Len(splits.train) + Len(splits.val) + Len(splits.test)
                    = Len(unique_records)

\* A dry run over two distinct snippets completed with no output directory.
C13_Witness ==
    /\ dry_run
    /\ pc = "done"
    /\ Len(unique_records) = 2
    /\ ~out.exists

\* C14: for valid ratios the validation split has floor(n * val_ratio)
\* records, the test split floor(n * test_ratio), and the training split the
\* rest, the ratios being the numbers as written.
C14_ExactFloorCounts ==
    (sizes # <<>> /\ ~sizes.raised) =>
        /\ sizes.val = (n_total * val_pct) \div 100
        /\ sizes.test = (n_total * test_pct) \div 100
        /\ sizes.train = n_total - sizes.val - sizes.test

(***************************************************************************)
(* Properties of the review service's status file.                         *)
(***************************************************************************)
\* No request is being handled.
Quiescent == linting = EmptyBag

\* C10: once all requests have completed, the status file holds for every
\* script the status of the last set-status request processed for it and
\* the quality of the last lint completed for it.
C10_FileHoldsLastUpdates ==
    Quiescent =>
       \A id \in ScriptIds :
          /\ last_set[id] # "none" =>
                status_file.state = "json" /\ status_file.statuses[id] = last_set[id]
          /\ last_lint[id] # "none" =>
                status_file.state = "json"
                /\ status_file.qualities[id].quality = last_lint[id]

\* C10 witness: a lint of a script began, a status was set for the same
\* script while the linter ran, the lint completed, and the file holds both.
C10_Witness ==
    /\ Quiescent
    /\ overlapped
    /\ \E id \in Scripts :
          /\ last_set[id] # "none"
          /\ last_lint[id] # "none"
          /\ status_file.statuses[id] = last_set[id]
          /\ status_file.qualities[id].quality = last_lint[id]

\* C12: a set-status request whose status is none of approved, needs_fix,
\* rejected, reviewed_ok and skip is answered with 400, and handling it changes
\* neither the statuses and qualities in memory nor the status file.
C12_InvalidStatusRejected ==
    [][(/\ sent' = sent + 1
        /\ last_req'.endpoint = "script-status"
        /\ last_req'.status \notin
               {"approved", "needs_fix", "rejected", "reviewed_ok", "skip"})
         => (last_code' = 400 /\ svc' = svc /\ status_file' = status_file)]_vars

\* An invalid status was refused by a service that holds a status set before.
C12_Witness ==
    /\ last_req = [endpoint |-> "script-status", status |-> "bogus"]
    /\ last_code = 400
    /\ \E id \in ScriptIds : last_set[id] # "none" /\ svc.statuses[id] = last_set[id]
    /\ status_file.state = "json"

(***************************************************************************)
(* Properties of the fixer agent.                                          *)
(***************************************************************************)
\* C11: with backups enabled, every script file the run has set out to
\* overwrite has a backup, and that backup holds the content the file had
\* before the run last did so.
C11_BackupHoldsPreEdit ==
    ag_backup =>
        \A p \in DOMAIN pre_edit :
            /\ PathName(p) \in DOMAIN backup_files
            /\ backup_files[PathName(p)] = pre_edit[p]

C19_PauseBetweenFiles ==
    \A k \in DOMAIN threads :
      LET w == threads[k] IN
      /\ w.pause_at >= 0 => Len(w.begun) <= w.pause_at + 1
      /\ w.begun = [j \in 1..Len(w.begun) |-> j]
      /\ Len(w.begun) <= gui_env.files
      /\ (~is_alive(w) /\ w.has_results /\ w.stop_at < 0)
           => Len(w.begun) = gui_env.files

\* A worker past its pause check when the pause was set has validated that
\* one file and now waits in the pause loop, the second file not begun.
C19_Witness ==
    \E k \in DOMAIN threads :
      /\ threads[k].w_pc = "pause"
      /\ pause_is_set(threads[k])
      /\ threads[k].stop_at < 0
      /\ threads[k].pause_at = 0
      /\ threads[k].begun = <<1>>
      /\ gui_env.files = 2

\* C20: at most one worker is alive, and a step that starts a worker is
\* taken only when no worker is alive.
C20_OneWorker ==
    /\ [](Len(SelectSeq(threads, is_alive)) <= 1)
    /\ [][Len(threads') > Len(SelectSeq(threads, is_alive))
            => SelectSeq(threads, is_alive) = <<>>]_vars

\* A second run: a worker is alive while the results file holds what an
\* earlier worker saved when it finished.
C20_Witness ==
    /\ Len(threads) = 1
    /\ is_alive(threads[1])
    /\ threads[1].has_results
    /\ log_file.exists
    /\ gui_env.files > 0
    /\ log_file.summary.passed + log_file.summary.failed + log_file.summary.errors
         = gui_env.files

(***************************************************************************)
(* Properties of the batch validators' counters.                           *)
(***************************************************************************)
\* Files whose validation has ended.
Processed(w) == Len(w.begun) - (IF w.w_pc = "validating" THEN 1 ELSE 0)

CountersAgree(w) ==
    LET s == w.summary IN
    /\ s.passed + s.failed + s.errors = Processed(w)
    /\ w.failures = s.failed + s.errors
    /\ s.passed + s.failed + s.errors <= s.total
    /\ (~is_alive(w) /\ w.stop_at < 0) => s.passed + s.failed + s.errors = s.total

\* The step that ends worker k's validation of a file adds one to exactly
\* one counter, the one the run calls for, and leaves the worker in its loop.
\* no_output says when a returned run counts as having printed nothing.
CountsTheRun(k, no_output(_)) ==
    (k \in DOMAIN threads' /\ threads[k].w_pc = "validating"
       /\ threads'[k].w_pc # "validating")
    => LET r == threads'[k].last_run
           counter == CASE r.exc = "none" /\ r.returncode = 0 /\ no_output(r) -> "passed"
                        [] r.exc \in {"none", "TimeoutExpired"} -> "failed"
                        [] OTHER -> "errors"
       IN /\ threads'[k].summary = [threads[k].summary EXCEPT ![counter] = @ + 1]
          /\ threads'[k].w_pc \in {"top", "end"}

NothingPrinted(r) == r.stdout = <<>> /\ r.stderr = <<>>

OnlyBlanksPrinted(r) == Strip(r.stdout) = <<>> /\ Strip(r.stderr) = <<>>

\* C21 as stated: the counters add up to the files processed, the failures
\* list has failed + errors entries, the sum stays within the total and
\* reaches it in a run that was not stopped; a file passes iff its run
\* returned exit code 0 and printed nothing at all, fails on another exit
\* code, on output or on a timeout, and is an error on any other exception.
C21_PassedIffNoOutput ==
    /\ [](\A k \in DOMAIN threads : threads[k].has_results => CountersAgree(threads[k]))
    /\ [][\A k \in DOMAIN threads : CountsTheRun(k, NothingPrinted)]_vars

\* C21, amended: the same, a file passing iff its run returned exit code 0
\* and printed nothing but whitespace.
C21_PassedIffBlankOutput ==
    /\ [](\A k \in DOMAIN threads : threads[k].has_results => CountersAgree(threads[k]))
    /\ [][\A k \in DOMAIN threads : CountsTheRun(k, OnlyBlanksPrinted)]_vars

\* A run that returned exit code 0 and printed one blank was counted as
\* passed, and the run before it, which raised, as an error.
C21_Witness ==
    \E k \in DOMAIN threads :
      /\ threads[k].last_run.exc = "none"
      /\ threads[k].last_run.returncode = 0
      /\ threads[k].last_run.stdout = <<SP>>
      /\ threads[k].summary = [total |-> 2, passed |-> 1, failed |-> 0, errors |-> 1]
      /\ threads[k].failures = 1
      /\ ~is_alive(threads[k])

\* C24: with the agent in dry-run mode a batch run of the fix command leaves
\* every script file as it was and writes no backup file, whatever the
\* analysis of each file produced.
C24_AgentDryRunWritesNothing ==
    ag_dry_run => (disk = AgentTree /\ backup_files = <<>>)

\* A dry run of the fix command that has counted two files as fixed.
C24_Witness ==
    /\ ag_dry_run
    /\ ag_pc = "done"
    /\ apply_fixes
    /\ report.files_fixed = 2

(***************************************************************************)
(* Properties of FixerService.                                             *)
(***************************************************************************)
\* C22: a call of fix_file that gives a result with success false leaves the
\* script with the content it had when the call began.
C22_FailureRestoresFile ==
    [][\A k \in DOMAIN fx_calls' :
         (/\ fx_calls'[k].success = "false"
          /\ (k \notin DOMAIN fx_calls \/ fx_calls[k].success = "none"))
         => fx_file' = fx_calls'[k].before]_vars

\* C23: when a call of preview_fix returns, the script has the content it
\* had when the call began.
C23_PreviewLeavesFile ==
    [][\A k \in DOMAIN fx_calls' :
         (/\ fx_calls'[k].preview
          /\ fx_calls'[k].fx_pc = "returned"
          /\ (k \notin DOMAIN fx_calls \/ fx_calls[k].fx_pc # "returned"))
         => fx_file' = fx_calls'[k].before]_vars

(***************************************************************************)
(* Properties of organize_files.                                           *)
(***************************************************************************)
\* A known prefix, then '_' or '-'.
HasKnownPrefix(name) ==
    \E p \in DOMAIN PREFIX_TO_FOLDER, sep \in {"_", "-"} :
      /\ Len(name) > Len(p)
      /\ \A j \in 1..Len(p) : name[j] = p[j]
      /\ name[Len(p) + 1] = sep

RECURSIVE LinesBefore(_, _, _, _)
LinesBefore(lines, idx, in_comment, directives_too) ==
    IF idx > Len(lines) THEN Len(lines)
    ELSE LET text == line_lstrip(lines[idx])
             closes == \E j \in DOMAIN text : text[j] = "*/"
         IN IF in_comment THEN LinesBefore(lines, idx + 1, ~closes, directives_too)
            ELSE IF text = <<>> \/ text[1] = ";"
            THEN LinesBefore(lines, idx + 1, FALSE, directives_too)
            ELSE IF text[1] = "/*"
            THEN LinesBefore(lines, idx + 1, ~closes, directives_too)
            ELSE IF directives_too /\ StartsWithHash(text[1])
            THEN LinesBefore(lines, idx + 1, FALSE, directives_too)
            ELSE idx - 1

\* Where a line of the reorderable header belongs: 0 the first #Requires
\* AutoHotkey v2 line, 1 the first #SingleInstance line, 2 an #Include
\* line, 3 any other.
HeaderRank(seg, i) ==
    CASE RE_REQUIRES_V2(seg[i]) /\ \A j \in 1..(i - 1) : ~RE_REQUIRES_V2(seg[j]) -> 0
      [] RE_SINGLE_INSTANCE(seg[i]) /\ \A j \in 1..(i - 1) : ~RE_SINGLE_INSTANCE(seg[j]) -> 1
      [] RE_INCLUDE(seg[i]) -> 2
      [] OTHER -> 3

\* result is lines with only the stretch from line p + 1 to line k reordered:
\* the same lines, with or without their trailing blanks, by rank and then by position.
OnlyReordered(lines, result, p, k) ==
    /\ Len(result) = Len(lines)
    /\ \A j \in 1..Len(lines) : (j <= p \/ j > k) => result[j] = lines[j]
    /\ LET seg == SubSeq(lines, p + 1, k)
           got == SubSeq(result, p + 1, k)
       IN \E perm \in [1..Len(seg) -> 1..Len(seg)] :
            /\ \A i, j \in 1..Len(seg) : i # j => perm[i] # perm[j]
            /\ \A j \in 1..Len(seg) : got[j] \in {seg[perm[j]], line_rstrip(seg[perm[j]])}
            /\ \A i, j \in 1..Len(seg) :
                 i < j => \/ HeaderRank(seg, perm[i]) < HeaderRank(seg, perm[j])
                          \/ /\ HeaderRank(seg, perm[i]) = HeaderRank(seg, perm[j])
                             /\ perm[i] < perm[j]

\* C26: reorder_header returns every line once, the leading comments and
\* blanks and all from the first code line on as they were and where they
\* were, and the directives between reordered: first #Requires, first
\* #SingleInstance, the #Include lines, then the others, in their order.
C26_OnlyHeaderReordered ==
    rh_result.returned
    => OnlyReordered(rh_lines, rh_result.lines,
                     LinesBefore(rh_lines, 1, FALSE, FALSE),
                     LinesBefore(rh_lines, 1, FALSE, TRUE))

\* The same with the header as find_header_end and find_comment_prefix_end
\* delimit it.
ReorderedWithinFoundHeader ==
    rh_result.returned
    => OnlyReordered(rh_lines, rh_result.lines,
                     find_comment_prefix_end(SubSeq(rh_lines, 1, find_header_end(rh_lines))),
                     find_header_end(rh_lines))

(***************************************************************************)
(* Properties of plan_renames and perform_renames.                         *)
(***************************************************************************)
\* C27: the plan gives different source files different target names, and
\* perform_renames never ends with FileExistsError after it has renamed
\* a file of the plan.
C27_DistinctTargets ==
    /\ \A i, j \in DOMAIN rn_plans :
         rn_plans[i].source # rn_plans[j].source
         => rn_plans[i].target # rn_plans[j].target
    /\ ~(rn_pc = "FileExistsError" /\ rn_renamed > 0)

====
